---- MODULE Spec2Model ----
(***************************************************************************)
(* A model of the city economic simulation core of circullareconomygame:   *)
(* the resource ledger, the per-building waste module, the factory         *)
(* production queue, the job market (citizens and worker lists) and the    *)
(* circular score.                                                         *)
(*                                                                         *)
(* Numbers.  The JavaScript code works on IEEE doubles.  Quantities are    *)
(* fixed-point here: one unit of a resource, of waste or of progress is    *)
(* Scale integer steps, so 0.5 is Scale \div 2.  Every program constant    *)
(* that is a quantity is written as a multiple of Scale.                   *)
(***************************************************************************)
EXTENDS Integers, Sequences, FiniteSets, TLC

Scale == 1000 * 1000

Min(a, b) == IF a <= b THEN a ELSE b
Max(a, b) == IF a >= b THEN a ELSE b

VARIABLES
  resources,   \* ResourceManager.resources: resource name -> amount (fixed-point)
  lastCall,    \* the last ledger call: its name, arguments, result and the ledger before it
  level,       \* gameState.level, the player's level (1..10)
  currentTick, \* Game.currentTick
  pollution,   \* GlobalPollution.pollution: waste type -> percent (fixed-point)
  waste,       \* one building's WasteModule
  wasteCall,   \* the last WasteModule call: its name and whether it hit the capacity
  factory,     \* one Factory: kind, level, productionQueue, power.required, jobs.workers.length
  energy,      \* gameState.energy
  xp,          \* gameState.xp
  money,       \* gameState.money
  productionMode, \* cityPolicies.productionMode
  fTrace,      \* what the factory's last simulate call did
  tiles,       \* city tiles: tile -> id of the building on it, 0 if none
  buildings,   \* every building object created so far, by id
  citizens,    \* every Citizen object created so far, by id
  workforceDistribution, \* cityPolicies.workforceDistribution (percent per job type)
  jTrace,      \* what the last operation on the city did
  circularScore, \* gameState.circularScore (fixed-point)
  center,      \* the city's RecyclingCenter: its level
  sTrace,      \* what the last operation on the score did
  penalties,   \* GlobalPollution.lastPenaltyTick and activePenalties, gameState's multipliers
  pTrace,      \* what the last GlobalPollution call did
  market,      \* Market: lastPriceUpdate, the price level (percent), autoBuyEnabled
  salesPolicy, \* cityPolicies.salesPolicy
  taxPolicy,   \* cityPolicies.taxPolicy
  lTrace,      \* Game.simulate: the step it is at and the steps of the current tick
  saveData,    \* the save in localStorage, as saveGame wrote it
  uTrace       \* the last upgrade, save or load: its result and the state before it

ledgerVars == <<resources, lastCall>>
gameVars == <<level, currentTick, pollution>>
wasteVars == <<waste, wasteCall>>
factoryVars == <<factory, energy, xp, money, productionMode, fTrace>>
cityVars == <<tiles, buildings, citizens, workforceDistribution, jTrace>>
scoreVars == <<circularScore, center, sTrace>>
pollutionVars == <<penalties, pTrace>>
loopVars == <<market, salesPolicy, taxPolicy, lTrace>>
saveVars == <<saveData, uTrace>>

\* The variables each scenario below leaves alone.
ledgerRest == <<gameVars, wasteVars, factoryVars, cityVars, scoreVars, pollutionVars, loopVars, saveVars>>
wasteRest == <<ledgerVars, factoryVars, cityVars, scoreVars, pollutionVars, loopVars, saveVars>>
factoryRest == <<cityVars, scoreVars, pollutionVars, loopVars, saveVars>>

vars == <<ledgerVars, gameVars, wasteVars, factoryVars, cityVars, scoreVars, pollutionVars, loopVars, saveVars>>

(***************************************************************************)
(* ResourceManager (gameState.js)                                          *)
(***************************************************************************)

WasteTypes ==
  {"textile-waste", "e-waste", "scrap-metal", "plastic-waste", "organic-waste"}

RecycledTypes ==
  {"recycled-fabric", "recycled-metal", "recycled-plastic", "recycled-electronics"}

ProductTypes ==
  {"clothing", "sports-gear", "smartphone", "laptop", "steel-beam",
   "steel-structure", "electric-car", "electric-bike", "fertilizer", "compost"}

RawTypes ==
  {"raw-fabric", "raw-plastic", "raw-metal", "raw-electronics", "raw-glass"}

ResourceNames == RawTypes \cup ProductTypes \cup WasteTypes \cup RecycledTypes

\* The ledger of a new game.
InitialResources ==
  [r \in ResourceNames |->
     CASE r = "raw-fabric"      -> 50 * Scale
       [] r = "raw-plastic"     -> 30 * Scale
       [] r = "raw-metal"       -> 20 * Scale
       [] r = "raw-electronics" -> 15 * Scale
       [] r = "raw-glass"       -> 10 * Scale
       [] OTHER                 -> 0]

\* this.limits: the five waste types are capped at 100, 0 means unlimited.
limits == [r \in WasteTypes |-> 100 * Scale]

limitOf(r) == IF r \in DOMAIN limits THEN limits[r] ELSE 0

\* getResource: this.resources[resourceType] || 0
getResource(res, r) == IF r \in DOMAIN res THEN res[r] ELSE 0

\* addResource with the over-limit branch left out.
addResourceNoClamp(res, r, a) ==
  IF r \notin DOMAIN res
    THEN [res |-> res, ok |-> FALSE]
    ELSE [res |-> [res EXCEPT ![r] = @ + a], ok |-> TRUE]

\* addResource(resourceType, amount): the new ledger and the returned boolean.
addResource(res, r, a) ==
  IF r \notin DOMAIN res
    THEN [res |-> res, ok |-> FALSE]
    ELSE IF limitOf(r) > 0 /\ res[r] + a > limitOf(r)
      THEN [res |-> [res EXCEPT ![r] = limitOf(r)], ok |-> FALSE]
      ELSE [res |-> [res EXCEPT ![r] = @ + a], ok |-> TRUE]

\* removeResource without the "enough in stock" test.
removeResourceNoCheck(res, r, a) ==
  IF r \notin DOMAIN res
    THEN [res |-> res, ok |-> FALSE]
    ELSE [res |-> [res EXCEPT ![r] = @ - a], ok |-> TRUE]

\* removeResource(resourceType, amount)
removeResource(res, r, a) ==
  IF r \notin DOMAIN res
    THEN [res |-> res, ok |-> FALSE]
    ELSE IF res[r] >= a
      THEN [res |-> [res EXCEPT ![r] = @ - a], ok |-> TRUE]
      ELSE [res |-> res, ok |-> FALSE]

\* A requirements object is a sequence of <<name, amount>> entries with
\* distinct names, in the order Object.entries yields them.
RECURSIVE hasResourcesFrom(_, _, _)
hasResourcesFrom(res, req, i) ==
  IF i > Len(req) THEN TRUE
  ELSE IF getResource(res, req[i][1]) < req[i][2] THEN FALSE
  ELSE hasResourcesFrom(res, req, i + 1)

\* hasResources that looks at the first entry only.
hasResourcesFirstOnly(res, req) ==
  IF Len(req) = 0 THEN TRUE ELSE getResource(res, req[1][1]) >= req[1][2]

\* hasResources(requirements)
hasResources(res, req) == hasResourcesFrom(res, req, 1)

RECURSIVE removeEach(_, _, _)
removeEach(res, req, i) ==
  IF i > Len(req) THEN res
  ELSE removeEach(removeResource(res, req[i][1], req[i][2]).res, req, i + 1)

\* consumeResources(requirements): check everything first, then remove each.
consumeResources(res, req) ==
  IF ~hasResources(res, req)
    THEN [res |-> res, ok |-> FALSE]
    ELSE [res |-> removeEach(res, req, 1), ok |-> TRUE]

\* getTotalWaste()
getTotalWaste(res) ==
  res["textile-waste"] + res["e-waste"] + res["scrap-metal"]
    + res["plastic-waste"] + res["organic-waste"]

(***************************************************************************)
(* LevelUnlocks (levelUnlocks.js)                                          *)
(***************************************************************************)

\* LevelUnlocks.unlockLevels, the features the simulation core asks about.
unlockLevels ==
  [f \in {"auto-buy", "local-waste", "hq-policy-panel", "eco-shop", "global-pollution"} |->
     CASE f = "auto-buy"         -> 2
       [] f = "local-waste"      -> 3
       [] f = "hq-policy-panel"  -> 4
       [] f = "eco-shop"         -> 5
       [] f = "global-pollution" -> 6]

\* isUnlocked(feature, currentLevel): a feature the table lacks counts as unlocked.
isUnlocked(f, lvl) == IF f \notin DOMAIN unlockLevels THEN TRUE ELSE lvl >= unlockLevels[f]

\* The highest player level (checkLevelUp stops at 10).
MaxPlayerLevel == 10

(***************************************************************************)
(* GlobalPollution (globalPollution.js)                                    *)
(***************************************************************************)

\* The keys of GlobalPollution.pollution.
PollutionTypes == {"textile-waste", "e-waste", "scrap-metal", "organic-waste"}

InitialPollution == [t \in PollutionTypes |-> 0]

\* GlobalPollution.addWaste(wasteType, amount)
pollutionAddWaste(pol, t, a) ==
  IF t \in DOMAIN pol THEN [pol EXCEPT ![t] = Min(100 * Scale, @ + a)] ELSE pol

\* GlobalPollution.removeWaste(wasteType, amount)
pollutionRemoveWaste(pol, t, a) ==
  IF t \in DOMAIN pol THEN [pol EXCEPT ![t] = Max(0, @ - a)] ELSE pol

\* updateTotalPollution(): the mean of the entries, at most 100.
totalPollution(pol) ==
  Min(100 * Scale,
      (pol["textile-waste"] + pol["e-waste"] + pol["scrap-metal"] + pol["organic-waste"]) \div 4)

\* penaltyCheckInterval
penaltyCheckInterval == 10

\* GlobalPollution as constructed, with gameState's two multipliers (percent;
\* 0 while never assigned).
NewPenalties ==
  [lastPenaltyTick |-> 0, circularScore |-> FALSE, xpReduction |-> FALSE,
   marketPrices |-> FALSE, eventTriggered |-> FALSE,
   circularScoreMultiplier |-> 0, xpMultiplier |-> 0]

\* Whether applyPenalties(currentTick) gets past its interval guard.
penaltiesDue(pen, tick) == ~ ((tick - pen.lastPenaltyTick) < penaltyCheckInterval)

\* Whether applyPenalties(currentTick) calls triggerPollutionEvent().
triggersPollutionEvent(pen, pol, tick) ==
  penaltiesDue(pen, tick) /\ totalPollution(pol) >= 100 * Scale

\* applyPenalties(currentTick): the penalties afterwards.
applyPenalties(pen, pol, tick) ==
  IF ~ penaltiesDue(pen, tick) THEN pen
  ELSE
    LET total == totalPollution(pol)
        csm == IF total >= 50 * Scale
                 THEN Max(50, 100 - total \div Scale)
                 ELSE pen.circularScoreMultiplier
        xpm == IF total < 20 * Scale THEN 110
               ELSE IF total >= 75 * Scale THEN 75
               ELSE pen.xpMultiplier
    IN [lastPenaltyTick |-> tick,
        circularScore |-> total >= 50 * Scale,
        xpReduction |-> total >= 75 * Scale,
        marketPrices |-> total >= 90 * Scale,
        eventTriggered |-> total >= 100 * Scale,
        circularScoreMultiplier |-> csm,
        xpMultiplier |-> xpm]

\* decay(): every entry loses 0.1, not below 0.
RECURSIVE decayTypes(_, _)
decayTypes(pol, left) ==
  IF left = {} THEN pol
  ELSE LET t == CHOOSE x \in left : TRUE
       IN decayTypes([pol EXCEPT ![t] = Max(0, @ - Scale \div 10)], left \ {t})

\* decay() that leaves the pool as it is.
pollutionDecayNothing(pol) == pol

pollutionDecay(pol) == decayTypes(pol, PollutionTypes)

(***************************************************************************)
(* WasteModule (modules/waste.js)                                          *)
(***************************************************************************)

\* maxCapacity
maxCapacity == 100 * Scale

\* The module of a building kind as its constructor leaves it.  A factory's
\* rate is the Factory field default (4): the base constructor copies it
\* before a subclass constructor assigns its own baseWasteProduction.
NewWaste(rate, type, interval) ==
  [amount |-> 0, productionRate |-> rate, wasteType |-> type,
   lastProductionTick |-> 0, productionInterval |-> interval]

WasteOfKind ==
  [k \in {"module", "factory", "residential", "commercial", "farming"} |->
     CASE k = "module"      -> NewWaste(0, "none", 3)
       [] k = "factory"     -> NewWaste(4 * Scale, "textile-waste", 3)
       [] k = "residential" -> NewWaste((3 * Scale) \div 10, "organic-waste", 8)
       [] k = "commercial"  -> NewWaste(Scale \div 2, "plastic-waste", 10)
       [] k = "farming"     -> NewWaste(Scale, "organic-waste", 5)]

\* produce without the clamp at maxCapacity.
wasteProduceNoClamp(w, a) == [w EXCEPT !.amount = w.amount + a]

\* produce(amount)
wasteProduce(w, a) == [w EXCEPT !.amount = Min(w.amount + a, maxCapacity)]

\* remove(amount): the module afterwards; the amount removed is wasteRemoved.
wasteRemoved(w, a) == Min(a, w.amount)
wasteRemove(w, a) == [w EXCEPT !.amount = Max(0, w.amount - wasteRemoved(w, a))]

\* getEfficiencyPenalty without the full stop at capacity.
getEfficiencyPenaltyNoStop(w) ==
  IF w.amount >= 95 * Scale THEN 5
  ELSE IF w.amount >= 80 * Scale THEN 8
  ELSE 10

\* getEfficiencyPenalty(), in tenths.
getEfficiencyPenalty(w) ==
  IF w.amount >= 100 * Scale THEN 0
  ELSE IF w.amount >= 95 * Scale THEN 5
  ELSE IF w.amount >= 80 * Scale THEN 8
  ELSE 10

\* Whether simulate(city, currentTick) emits in this call.
wasteEmits(w, lvl, tick) ==
  /\ isUnlocked("local-waste", lvl)
  /\ w.productionRate > 0
  /\ w.wasteType # "none"
  /\ tick - w.lastProductionTick >= w.productionInterval

\* simulate(city, currentTick): the module afterwards.
wasteSimulate(w, lvl, tick) ==
  IF wasteEmits(w, lvl, tick)
    THEN [wasteProduce(w, w.productionRate) EXCEPT !.lastProductionTick = tick]
    ELSE w

\* simulate(city, currentTick): the pollution pool afterwards (10% leaks once
\* global pollution is unlocked).
wasteSimulatePollution(w, lvl, tick, pol) ==
  IF wasteEmits(w, lvl, tick) /\ isUnlocked("global-pollution", lvl)
    THEN pollutionAddWaste(pol, w.wasteType, w.productionRate \div 10)
    ELSE pol

\* reset()
wasteReset(w) == [w EXCEPT !.amount = 0, !.lastProductionTick = 0]

(***************************************************************************)
(* GameState: energy, money, XP (gameState.js)                             *)
(***************************************************************************)

\* xpRequirements: cumulative XP needed for each level.
xpRequirements ==
  [l \in 1..MaxPlayerLevel |->
     CASE l = 1 -> 0     [] l = 2 -> 100   [] l = 3 -> 250  [] l = 4 -> 500
       [] l = 5 -> 1000  [] l = 6 -> 2000  [] l = 7 -> 4000 [] l = 8 -> 8000
       [] l = 9 -> 16000 [] l = 10 -> 32000]

\* checkLevelUp(): at most one level per call.
checkLevelUp(lvl, x) ==
  IF lvl + 1 <= MaxPlayerLevel /\ x >= xpRequirements[lvl + 1] THEN lvl + 1 ELSE lvl

\* addXP(amount): the new [xp, level].
addXP(lvl, x, a) == [xp |-> x + a, level |-> checkLevelUp(lvl, x + a)]

\* consumeEnergy(amount): the energy afterwards.
consumeEnergy(e, a) == IF e >= a THEN e - a ELSE e

\* Money is held in hundredths of a coin.
Cent == 10 * 10

\* spendMoney that does not look at the balance.
spendMoneyOverdraw(m, a) == [money |-> m - a, ok |-> TRUE]

\* spendMoney(amount)
spendMoney(m, a) == IF m >= a THEN [money |-> m - a, ok |-> TRUE] ELSE [money |-> m, ok |-> FALSE]

(***************************************************************************)
(* CityPolicies tax policy, GameState.addMoney, Market (market.js)         *)
(***************************************************************************)

SalesPolicies == {"auto", "store", "smart"}
TaxPolicies == {"low", "medium", "high"}

\* getTaxPolicyEffects().money, in percent.
taxMoney(tax) == CASE tax = "low" -> 0 [] tax = "high" -> 125 [] OTHER -> 100

\* addMoney(amount): the money afterwards; the tax policy's multiplier
\* applies once the policy panel is unlocked.
addMoney(m, a, lvl, tax) ==
  IF isUnlocked("hq-policy-panel", lvl) THEN m + (a * taxMoney(tax)) \div 100 ELSE m + a

\* Object.keys(productPrices) and Object.keys(rawMaterialPrices), in order.
marketProducts ==
  << "clothing", "sports-gear", "smartphone", "laptop", "steel-beam", "steel-structure",
     "electric-bike", "electric-car", "fertilizer", "compost" >>

marketMaterials == << "raw-fabric", "raw-plastic", "raw-metal", "raw-electronics", "raw-glass" >>

\* productPrices as constructed, in coins.
productPrices ==
  [p \in ProductTypes |->
     CASE p = "clothing" -> 450       [] p = "sports-gear" -> 600
       [] p = "smartphone" -> 750     [] p = "laptop" -> 1500
       [] p = "steel-beam" -> 650     [] p = "steel-structure" -> 900
       [] p = "electric-bike" -> 1200 [] p = "electric-car" -> 1700
       [] p = "fertilizer" -> 100     [] OTHER -> 60]

\* ecoShopPrices, in coins; fertilizer and compost have none.
ecoShopPrices ==
  [p \in ProductTypes \ {"fertilizer", "compost"} |->
     CASE p = "clothing" -> 520       [] p = "sports-gear" -> 700
       [] p = "smartphone" -> 900     [] p = "laptop" -> 1800
       [] p = "steel-beam" -> 800     [] p = "steel-structure" -> 1100
       [] p = "electric-bike" -> 1400 [] OTHER -> 2000]

\* rawMaterialPrices as constructed, in coins.
rawMaterialPrices ==
  [r \in RawTypes |->
     CASE r = "raw-fabric" -> 10 [] r = "raw-plastic" -> 8 [] r = "raw-metal" -> 12
       [] r = "raw-electronics" -> 15 [] OTHER -> 6]

autoSellRate == 2 * Scale
autoBuyRate == (3 * Scale) \div 10
autoBuyMinMoney == 1000
priceUpdateInterval == 20

\* The outcomes of one price update kept here for (Math.random() - 0.5) * 2 *
\* priceVolatility: the price level moves by -10%, 0 or +10%.
Fluctuations == {90, 100, 110}

\* A new Market after initialize(level); the price levels are percentages of
\* the constructed prices.
NewMarket(lvl) ==
  [lastPriceUpdate |-> 0, productLevel |-> 100, rawLevel |-> 100,
   autoSellEnabled |-> TRUE, autoBuyEnabled |-> lvl >= 2]

\* initialize(level)
marketInitialize(mk, lvl) ==
  [mk EXCEPT !.autoSellEnabled = TRUE, !.autoBuyEnabled = @ \/ lvl >= 2]

\* Whether updatePrices(currentTick) gets past its interval guard.
pricesDue(mk, tick) == ~ (tick - mk.lastPriceUpdate < priceUpdateInterval)

\* updatePrices(currentTick) with the fluctuations fp and fr.
updatePrices(mk, tick, fp, fr) ==
  IF ~ pricesDue(mk, tick) THEN mk
  ELSE [mk EXCEPT !.lastPriceUpdate = tick,
                  !.productLevel = Max(@ \div 2, (@ * fp) \div 100),
                  !.rawLevel = Max(@ \div 2, (@ * fr) \div 100)]

\* amount (fixed-point) times price (coins) at a price level, in hundredths.
priced(amount, price, pct) == ((amount \div 1000) * price * pct) \div 1000

\* The forEach of autoSellProducts from product i on: the ledger and the money.
RECURSIVE sellProducts(_, _, _, _, _, _, _)
sellProducts(mk, res, m, lvl, tax, hasEcoShop, i) ==
  IF i > Len(marketProducts) THEN [resources |-> res, money |-> m]
  ELSE
    LET p == marketProducts[i]
        toSell == Min(autoSellRate, getResource(res, p))
        earnings == IF hasEcoShop /\ p \in DOMAIN ecoShopPrices
                      THEN priced(toSell, ecoShopPrices[p], 100)
                      ELSE priced(toSell, productPrices[p], mk.productLevel)
    IN IF toSell > 0
         THEN sellProducts(mk, removeResource(res, p, toSell).res,
                           addMoney(m, earnings, lvl, tax), lvl, tax, hasEcoShop, i + 1)
         ELSE sellProducts(mk, res, m, lvl, tax, hasEcoShop, i + 1)

\* The sum of every ledger amount.
RECURSIVE totalInventory(_, _)
totalInventory(res, left) ==
  IF left = {} THEN 0
  ELSE LET r == CHOOSE x \in left : TRUE IN res[r] + totalInventory(res, left \ {r})

\* The 'smart' policy holds the sales back when the inventory is under 70% of
\* 1000, the energy is not above 50 and the score is below 50.
smartHoldsBack(res, e, score) ==
  totalInventory(res, DOMAIN res) < 700 * Scale /\ ~ (e > 50) /\ score < 50 * Scale

\* autoSellProducts(resourceManager, gameState)
autoSellProducts(mk, res, m, lvl, tax, sales, e, score, hasEcoShop) ==
  IF ~ mk.autoSellEnabled \/ sales = "store" THEN [resources |-> res, money |-> m]
  ELSE IF sales = "smart" /\ smartHoldsBack(res, e, score) THEN [resources |-> res, money |-> m]
  ELSE sellProducts(mk, res, m, lvl, tax, hasEcoShop, 1)

\* The forEach of autoBuyMaterials from material i on.
RECURSIVE buyMaterials(_, _, _, _)
buyMaterials(mk, res, m, i) ==
  IF i > Len(marketMaterials) THEN [resources |-> res, money |-> m]
  ELSE
    LET r == marketMaterials[i]
        cur == getResource(res, r)
        toBuy == Min(autoBuyRate, 10 * Scale - cur)
        cost == priced(toBuy, rawMaterialPrices[r], mk.rawLevel)
    IN IF cur < 10 * Scale /\ toBuy > 0 /\ m >= cost
         THEN buyMaterials(mk, addResource(res, r, toBuy).res, spendMoney(m, cost).money, i + 1)
         ELSE buyMaterials(mk, res, m, i + 1)

\* autoBuyMaterials(resourceManager, gameState)
autoBuyMaterials(mk, res, m) ==
  IF ~ mk.autoBuyEnabled \/ m < autoBuyMinMoney * Cent THEN [resources |-> res, money |-> m]
  ELSE buyMaterials(mk, res, m, 1)

(***************************************************************************)
(* CityPolicies.getProductionModeEffects (cityPolicies.js), in percent     *)
(***************************************************************************)

ProductionModes == {"balanced", "economy", "environment"}

getProductionModeEffects(mode) ==
  CASE mode = "economy"     -> [speed |-> 120, waste |-> 125, circularScore |-> -1]
    [] mode = "environment" -> [speed |-> 85,  waste |-> 70,  circularScore |-> 1]
    [] OTHER                -> [speed |-> 100, waste |-> 100, circularScore |-> 0]

(***************************************************************************)
(* PowerModule and Building.simulate                                       *)
(***************************************************************************)

\* PowerModule.isFullyPowered
isFullyPowered(required, e) == required = 0 \/ e >= required

\* Building.simulate that consumes without looking at the pool.
buildingDrawPowerUnchecked(required, e) == e - required

\* Building.simulate: the energy pool after the building drew its power.
buildingDrawPower(required, e) ==
  IF required > 0 /\ e >= required THEN consumeEnergy(e, required) ELSE e

(***************************************************************************)
(* Factory (factory.js) with the textile and steel recipe tables           *)
(***************************************************************************)

FactoryKinds == {"textile", "steel"}

\* this.recipes, in array order.
recipes(kind) ==
  IF kind = "textile" THEN
    << [id |-> "textile-basic", inputs |-> << <<"raw-fabric", 2 * Scale>> >>,
        outputs |-> << <<"clothing", Scale>> >>, waste |-> << <<"textile-waste", Scale>> >>,
        duration |-> 3, requiredLevel |-> 1],
       [id |-> "textile-advanced",
        inputs |-> << <<"raw-fabric", 3 * Scale>>, <<"raw-plastic", Scale>> >>,
        outputs |-> << <<"clothing", 2 * Scale>> >>, waste |-> << <<"textile-waste", Scale>> >>,
        duration |-> 4, requiredLevel |-> 2],
       [id |-> "eco-textile",
        inputs |-> << <<"raw-fabric", 2 * Scale>>, <<"recycled-plastic", Scale>> >>,
        outputs |-> << <<"clothing", Scale>> >>, waste |-> << <<"textile-waste", Scale \div 2>> >>,
        duration |-> 5, requiredLevel |-> 3] >>
  ELSE
    << [id |-> "steel-basic", inputs |-> << <<"raw-metal", 3 * Scale>> >>,
        outputs |-> << <<"steel-beam", Scale>> >>, waste |-> << <<"scrap-metal", 2 * Scale>> >>,
        duration |-> 3, requiredLevel |-> 1],
       [id |-> "steel-advanced",
        inputs |-> << <<"raw-metal", 4 * Scale>>, <<"recycled-metal", Scale>> >>,
        outputs |-> << <<"steel-structure", Scale>> >>,
        waste |-> << <<"scrap-metal", (3 * Scale) \div 2>> >>,
        duration |-> 5, requiredLevel |-> 2],
       [id |-> "eco-steel", inputs |-> << <<"recycled-metal", 3 * Scale>> >>,
        outputs |-> << <<"steel-beam", Scale>> >>, waste |-> << <<"scrap-metal", Scale \div 2>> >>,
        duration |-> 6, requiredLevel |-> 3] >>

\* requiredWorkers
requiredWorkers(kind) == IF kind = "steel" THEN 20 ELSE 10

\* energyConsumption as the subclass constructor leaves it.
energyConsumption(kind) == IF kind = "steel" THEN 10 ELSE 5

\* getBaseCost()
getBaseCost(kind) == IF kind = "steel" THEN 10000 ELSE 5000

\* maxLevel
maxLevel == 5

\* maxQueueSize in startAutomaticProduction
maxQueueSize == 5

\* A factory as its constructors leave it: power.required is the Factory field
\* default 5, copied before the subclass assigns energyConsumption.
NewFactory(kind) ==
  [kind |-> kind, level |-> 1, productionQueue |-> <<>>, powerRequired |-> 5, workers |-> 0]

\* get maxWorkers of a factory
factoryMaxWorkers(kind) == requiredWorkers(kind) * 2

\* Whether the policy panel is in force (window.levelUnlocks.isUnlocked('hq-policy-panel', level)).
policyActive(lvl) == isUnlocked("hq-policy-panel", lvl)

\* get productionEfficiency without the final Math.min(1, ...).
productionEfficiencyUnclamped(f, e, lvl, mode) ==
  IF ~isFullyPowered(f.powerRequired, e) THEN Scale \div 2
  ELSE
    LET base    == Min(Scale, 7 * (Scale \div 10) + (f.level - 1) * (Scale \div 10))
        staffed == IF f.workers < requiredWorkers(f.kind)
                     THEN (base * f.workers) \div requiredWorkers(f.kind)
                     ELSE base
    IN IF policyActive(lvl)
         THEN (staffed * getProductionModeEffects(mode).speed) \div 100
         ELSE staffed

\* get productionEfficiency, in Scale units.
productionEfficiency(f, e, lvl, mode) ==
  IF ~isFullyPowered(f.powerRequired, e) THEN Scale \div 2
  ELSE
    LET base    == Min(Scale, 7 * (Scale \div 10) + (f.level - 1) * (Scale \div 10))
        staffed == IF f.workers < requiredWorkers(f.kind)
                     THEN (base * f.workers) \div requiredWorkers(f.kind)
                     ELSE base
        moded   == IF policyActive(lvl)
                     THEN (staffed * getProductionModeEffects(mode).speed) \div 100
                     ELSE staffed
    IN IF f.workers < requiredWorkers(f.kind) /\ f.workers = 0 THEN 0 ELSE Min(Scale, moded)

\* get wasteProductionMultiplier, in percent.
wasteProductionMultiplier(lvl, mode) ==
  IF policyActive(lvl) THEN getProductionModeEffects(mode).waste ELSE 100

\* amount * this.wasteProduction / this.baseWasteProduction: the recipe's waste
\* scaled by the level discount (5% per level) and the production mode.
scaledWaste(a, flevel, lvl, mode) ==
  (((a * Max(0, 100 - 5 * (flevel - 1))) \div 100) * wasteProductionMultiplier(lvl, mode)) \div 100

\* canProduce without the factory-level test.
canProduceAnyLevel(f, recipe) ==
  \E i \in 1..Len(recipes(f.kind)) : recipes(f.kind)[i].id = recipe.id

\* canProduce(recipe)
canProduce(f, recipe) ==
  IF recipe.requiredLevel # 0 /\ f.level < recipe.requiredLevel
    THEN FALSE
    ELSE \E i \in 1..Len(recipes(f.kind)) : recipes(f.kind)[i].id = recipe.id

\* addProduction that queues the job without consuming its inputs.
addProductionNoConsume(f, res, recipe) ==
  IF ~canProduce(f, recipe) THEN [queue |-> f.productionQueue, res |-> res, ok |-> FALSE]
  ELSE IF ~hasResources(res, recipe.inputs)
    THEN [queue |-> f.productionQueue, res |-> res, ok |-> FALSE]
  ELSE [queue |-> Append(f.productionQueue,
                         [recipe |-> recipe.id, progress |-> 0, totalTime |-> recipe.duration,
                          requiredLevel |-> recipe.requiredLevel]),
        res |-> res, ok |-> TRUE]

\* addProduction(recipe): the new queue and ledger, and whether a job was added.
addProduction(f, res, recipe) ==
  IF ~canProduce(f, recipe) THEN [queue |-> f.productionQueue, res |-> res, ok |-> FALSE]
  ELSE IF ~hasResources(res, recipe.inputs)
    THEN [queue |-> f.productionQueue, res |-> res, ok |-> FALSE]
  ELSE [queue |-> Append(f.productionQueue,
                         [recipe |-> recipe.id, progress |-> 0, totalTime |-> recipe.duration,
                          requiredLevel |-> recipe.requiredLevel]),
        res |-> consumeResources(res, recipe.inputs).res, ok |-> TRUE]

\* The comparator with the lower level first throughout.
compareRecipesLowerFirst(a, b, flevel) == a.requiredLevel - b.requiredLevel

\* The comparator of startAutomaticProduction's sort.
compareRecipes(a, b, flevel) ==
  IF a.requiredLevel <= flevel /\ b.requiredLevel <= flevel
    THEN b.requiredLevel - a.requiredLevel
    ELSE a.requiredLevel - b.requiredLevel

\* Stable insertion of r into an already sorted sequence.
RECURSIVE insertSorted(_, _, _)
insertSorted(sorted, r, flevel) ==
  IF Len(sorted) = 0 THEN <<r>>
  ELSE IF compareRecipes(sorted[Len(sorted)], r, flevel) <= 0 THEN Append(sorted, r)
  ELSE Append(insertSorted(SubSeq(sorted, 1, Len(sorted) - 1), r, flevel), sorted[Len(sorted)])

\* [...this.recipes].sort(comparator)
RECURSIVE sortedRecipesFrom(_, _, _)
sortedRecipesFrom(rs, n, flevel) ==
  IF n = 0 THEN <<>> ELSE insertSorted(sortedRecipesFrom(rs, n - 1, flevel), rs[n], flevel)

sortedRecipes(f) == sortedRecipesFrom(recipes(f.kind), Len(recipes(f.kind)), f.level)

\* The for-loop of startAutomaticProduction: index of the first sorted recipe
\* that can be produced and paid for, 0 if none.
RECURSIVE firstProducible(_, _, _, _)
firstProducible(f, res, sorted, i) ==
  IF i > Len(sorted) THEN 0
  ELSE IF canProduce(f, sorted[i]) /\ hasResources(res, sorted[i].inputs) THEN i
  ELSE firstProducible(f, res, sorted, i + 1)

\* startAutomaticProduction(): the new queue and ledger.
RECURSIVE startAutomaticProduction(_, _)
startAutomaticProduction(f, res) ==
  IF Len(f.productionQueue) >= maxQueueSize THEN [queue |-> f.productionQueue, res |-> res]
  ELSE
    LET sorted == sortedRecipes(f)
        i == firstProducible(f, res, sorted, 1)
    IN IF i = 0 THEN [queue |-> f.productionQueue, res |-> res]
       ELSE LET added == addProduction(f, res, sorted[i])
            IN IF Len(added.queue) = Len(f.productionQueue)
                 THEN [queue |-> added.queue, res |-> added.res]
                 ELSE startAutomaticProduction([f EXCEPT !.productionQueue = added.queue], added.res)

\* Object.entries(recipe.outputs).forEach(addResource)
RECURSIVE addEach(_, _, _)
addEach(res, entries, i) ==
  IF i > Len(entries) THEN res
  ELSE addEach(addResource(res, entries[i][1], entries[i][2]).res, entries, i + 1)

\* Object.entries(recipe.waste).forEach(addResource(type, scaled amount))
RECURSIVE addEachWaste(_, _, _, _, _, _)
addEachWaste(res, entries, i, flevel, lvl, mode) ==
  IF i > Len(entries) THEN res
  ELSE addEachWaste(addResource(res, entries[i][1],
                                scaledWaste(entries[i][2], flevel, lvl, mode)).res,
                    entries, i + 1, flevel, lvl, mode)

\* The recipe a job refers to.
recipeOf(kind, id) ==
  LET i == CHOOSE k \in 1..Len(recipes(kind)) : recipes(kind)[k].id = id IN recipes(kind)[i]

\* completeProduction(job): the world [res, xp, level] afterwards.
completeProduction(f, job, w, mode) ==
  LET recipe == recipeOf(f.kind, job.recipe)
      res1   == addEach(w.res, recipe.outputs, 1)
      res2   == addEachWaste(res1, recipe.waste, 1, f.level, w.level, mode)
      gained == addXP(w.level, w.xp, 5)
  IN [res |-> res2, xp |-> gained.xp, level |-> gained.level]

\* splice that removes nothing.
spliceNothing(q, i) == q

\* queue.splice(i, 1)
splice(q, i) == SubSeq(q, 1, i - 1) \o SubSeq(q, i + 1, Len(q))

\* The progress loop of simulate, from index i down to 1: every job advances
\* by the adjusted efficiency, and a job that reached totalTime is completed
\* and removed.  Yields the queue, the world and the ids completed.
RECURSIVE advanceJobs(_, _, _, _, _, _, _)
advanceJobs(f, q, i, adj, w, mode, done) ==
  IF i < 1 THEN [queue |-> q, world |-> w, completed |-> done]
  ELSE
    LET job == [q[i] EXCEPT !.progress = @ + adj]
    IN IF job.progress >= job.totalTime * Scale
         THEN advanceJobs(f, splice(q, i), i - 1, adj,
                          completeProduction(f, job, w, mode), mode, Append(done, job.recipe))
         ELSE advanceJobs(f, [q EXCEPT ![i] = job], i - 1, adj, w, mode, done)

\* getUpgradeCost(): floor(getBaseCost() * 1.2^level)
getUpgradeCost(f) ==
  LET b == getBaseCost(f.kind)
  IN CASE f.level = 1 -> (b * 12) \div 10
       [] f.level = 2 -> (b * 144) \div 100
       [] f.level = 3 -> (b * 1728) \div 1000
       [] f.level = 4 -> (b * 20736) \div 10000
       [] OTHER       -> (b * 248832) \div 100000

\* upgrade(): the factory and the money afterwards.
upgrade(f, m) ==
  IF f.level >= maxLevel THEN [factory |-> f, money |-> m, ok |-> FALSE]
  ELSE LET paid == spendMoney(m, getUpgradeCost(f) * Cent)
       IN IF paid.ok
            THEN [factory |-> [f EXCEPT !.level = @ + 1,
                                        !.powerRequired = energyConsumption(f.kind)],
                  money |-> paid.money, ok |-> TRUE]
            ELSE [factory |-> f, money |-> m, ok |-> FALSE]

\* Factory.simulate(city, currentTick): everything the call changes, and what
\* it did.  st = [factory, res, energy, xp, level, waste, pollution].
factorySimulate(st, tick, mode) ==
  LET f         == st.factory
      energy1   == buildingDrawPower(f.powerRequired, st.energy)
      unlocked  == isUnlocked("local-waste", st.level)
      waste1    == IF unlocked THEN wasteSimulate(st.waste, st.level, tick) ELSE st.waste
      pol1      == IF unlocked THEN wasteSimulatePollution(st.waste, st.level, tick, st.pollution)
                               ELSE st.pollution
      penalty   == IF unlocked THEN getEfficiencyPenalty(waste1) ELSE 10
      powered   == isFullyPowered(f.powerRequired, energy1)
      original  == productionEfficiency(f, energy1, st.level, mode)
      adjusted  == (original * penalty) \div 10
      w0        == [res |-> st.res, xp |-> st.xp, level |-> st.level]
      advanced  == IF powered /\ Len(f.productionQueue) > 0 /\ adjusted > 0
                     THEN advanceJobs(f, f.productionQueue, Len(f.productionQueue),
                                      adjusted, w0, mode, <<>>)
                     ELSE [queue |-> f.productionQueue, world |-> w0, completed |-> <<>>]
      f1        == [f EXCEPT !.productionQueue = advanced.queue]
      filled    == IF powered /\ adjusted > 0
                     THEN startAutomaticProduction(f1, advanced.world.res)
                     ELSE [queue |-> f1.productionQueue, res |-> advanced.world.res]
  IN [factory   |-> [f1 EXCEPT !.productionQueue = filled.queue],
      res       |-> filled.res,
      energy    |-> energy1,
      xp        |-> advanced.world.xp,
      level     |-> advanced.world.level,
      waste     |-> waste1,
      pollution |-> pol1,
      trace     |-> [op |-> "simulate", wasteAtEval |-> waste1.amount, penalty |-> penalty,
                     powered |-> powered, original |-> original, adjusted |-> adjusted,
                     queueBefore |-> f.productionQueue, afterProgress |-> advanced.queue,
                     completed |-> advanced.completed,
                     enqueued |-> SubSeq(filled.queue, Len(advanced.queue) + 1, Len(filled.queue)),
                     levelAtEnqueue |-> f.level, ticks |-> 0]]

(***************************************************************************)
(* City, JobsModule (jobs.js) and Citizen (citizen.js)                     *)
(*                                                                         *)
(* A building is [kind, workers, residents, devState, devLevel]; workers   *)
(* and residents are lists of citizen ids.  A citizen is [state,           *)
(* workplace, stateCounter, residence]; workplace and residence are        *)
(* building ids, workplace 0 for null.  Objects stay in `buildings` and    *)
(* `citizens` after they left the city, as a reference may still hold them.*)
(* A world w is [tiles, buildings, citizens].                              *)
(***************************************************************************)

\* The tiles followed, in the order City.simulate scans the grid (x outer, y inner).
TilePos == << [x |-> 0, y |-> 0], [x |-> 0, y |-> 2], [x |-> 1, y |-> 0], [x |-> 5, y |-> 0] >>
Tiles == 1..Len(TilePos)

\* config.citizen.maxJobSearchDistance
maxJobSearchDistance == 4

\* config.modules.jobs.maxWorkers: workers per development level of a zone.
baseWorkersPerLevel == 2

Abs(n) == IF n < 0 THEN -n ELSE n

InSeq(seq, e) == \E i \in 1..Len(seq) : seq[i] = e

\* indexOf + splice(index, 1): drops the first occurrence.
RECURSIVE removeFirst(_, _)
removeFirst(seq, e) ==
  IF Len(seq) = 0 THEN seq
  ELSE IF seq[1] = e THEN Tail(seq)
  ELSE <<seq[1]>> \o removeFirst(Tail(seq), e)

NewBuilding(kind) ==
  [kind |-> kind, workers |-> <<>>, residents |-> <<>>,
   devState |-> IF kind = "textile-factory" THEN "none" ELSE "undeveloped", devLevel |-> 1]

hasJobs(b) == b.kind \in {"textile-factory", "commercial"}

\* JobsModule.maxWorkers
jobsMaxWorkers(b) ==
  IF b.kind = "textile-factory" THEN factoryMaxWorkers("textile")
  ELSE IF b.kind = "commercial"
    THEN IF b.devState # "developed" THEN 0
         ELSE IF b.devLevel = 1 THEN baseWorkersPerLevel
         ELSE IF b.devLevel = 2 THEN baseWorkersPerLevel * baseWorkersPerLevel
         ELSE baseWorkersPerLevel * baseWorkersPerLevel * baseWorkersPerLevel
  ELSE 0

\* JobsModule.availableJobs
availableJobs(b) == jobsMaxWorkers(b) - Len(b.workers)

\* layOffWorkers that empties the list and leaves the workers as they are.
layOffWorkersListOnly(w, bid) ==
  [w EXCEPT !.buildings[bid].workers = <<>>]

\* layOffWorkers that clears the workplaces and leaves the states as they are.
RECURSIVE layOffWorkersKeepState(_, _)
layOffWorkersKeepState(w, bid) ==
  IF Len(w.buildings[bid].workers) = 0 THEN w
  ELSE LET c == w.buildings[bid].workers[1]
       IN layOffWorkersKeepState(
            [w EXCEPT !.citizens[c].workplace = 0,
                      !.citizens[c].stateCounter = 0,
                      !.buildings[bid].workers = Tail(@)], bid)

\* JobsModule.#layOffWorkers: every worker in the list loses the workplace and
\* becomes unemployed, then the list is emptied.
RECURSIVE layOffWorkers(_, _)
layOffWorkers(w, bid) ==
  IF Len(w.buildings[bid].workers) = 0 THEN w
  ELSE LET c == w.buildings[bid].workers[1]
       IN layOffWorkers(
            [w EXCEPT !.citizens[c].workplace = 0,
                      !.citizens[c].state = "unemployed",
                      !.citizens[c].stateCounter = 0,
                      !.buildings[bid].workers = Tail(@)], bid)

\* JobsModule.simulate
jobsSimulate(w, bid) ==
  IF w.buildings[bid].devState = "abandoned" THEN layOffWorkers(w, bid) ELSE w

\* The tile whose building is the object bid, 0 if it is not on the grid.
tileOf(w, bid) ==
  IF \E t \in Tiles : w.tiles[t] = bid THEN CHOOSE t \in Tiles : w.tiles[t] = bid ELSE 0

distance(t, u) == Abs(TilePos[t].x - TilePos[u].x) + Abs(TilePos[t].y - TilePos[u].y)

\* The job type #findJob gives a building: "factories", "commercial" or "none".
jobTypeOf(b) ==
  IF b.kind = "textile-factory" THEN "factories"
  ELSE IF b.kind = "commercial" THEN "commercial"
  ELSE "none"

\* hasAvailableJob without the test against maxWorkers.
hasAvailableJobNoCap(b, cid) == hasJobs(b) /\ ~InSeq(b.workers, cid)

\* #findJob: whether building b has an opening for citizen cid.
hasAvailableJob(b, cid) ==
  IF b.kind = "textile-factory"
    THEN Len(b.workers) < factoryMaxWorkers("textile") /\ ~InSeq(b.workers, cid)
  ELSE IF b.kind = "commercial"
    THEN availableJobs(b) > 0 /\ ~InSeq(b.workers, cid)
  ELSE FALSE

\* #findJob: the tiles pushed to availableJobs for a citizen living on tile home.
candidateTiles(w, cid, home) ==
  { t \in Tiles : /\ w.tiles[t] # 0
                  /\ distance(home, t) >= 1
                  /\ distance(home, t) <= maxJobSearchDistance
                  /\ hasAvailableJob(w.buildings[w.tiles[t]], cid) }

\* The order in which the search loops (distance, dx, dy) reach two tiles.
scanBefore(home, t, u) ==
  LET dt == distance(home, t)
      du == distance(home, u)
      dxt == TilePos[t].x - TilePos[home].x
      dxu == TilePos[u].x - TilePos[home].x
  IN \/ dt < du
     \/ dt = du /\ dxt < dxu
     \/ dt = du /\ dxt = dxu /\ TilePos[t].y < TilePos[u].y

\* The number of workers of the building on tile t that count towards type,
\* this citizen excluded.
workersOfType(w, cid, type, t) ==
  IF w.tiles[t] = 0 THEN 0
  ELSE IF jobTypeOf(w.buildings[w.tiles[t]]) # type THEN 0
  ELSE IF InSeq(w.buildings[w.tiles[t]].workers, cid)
    THEN Len(w.buildings[w.tiles[t]].workers) - 1
  ELSE Len(w.buildings[w.tiles[t]].workers)

\* currentDistribution[type]: workers of that type on the grid, this citizen excluded.
RECURSIVE currentDistributionFrom(_, _, _, _)
currentDistributionFrom(w, cid, type, t) ==
  IF t > Len(TilePos) THEN 0
  ELSE workersOfType(w, cid, type, t) + currentDistributionFrom(w, cid, type, t + 1)

currentDistribution(w, cid, type) == currentDistributionFrom(w, cid, type, 1)

\* job.priority without the distance term.
priorityOfNoDistance(share, cur, total, d) ==
  IF total > 0 THEN (share * total - 100 * cur) * 1000 ELSE share * 1000

\* job.priority = deficit * 1000 - distance for a job of share `share` (percent)
\* at distance d, when cur of the total workers have its type; times
\* 100 * total (times 100 when nobody works yet), so that it stays an integer.
priorityOf(share, cur, total, d) ==
  IF total > 0
    THEN (share * total - 100 * cur) * 1000 - d * 100 * total
    ELSE share * 1000 - d * 100

priority(w, cid, home, t, wd) ==
  priorityOf(wd[jobTypeOf(w.buildings[w.tiles[t]])],
             currentDistribution(w, cid, jobTypeOf(w.buildings[w.tiles[t]])),
             currentDistribution(w, cid, "factories")
               + currentDistribution(w, cid, "commercial"),
             distance(home, t))

typeOrder(type) == IF type = "factories" THEN 3 ELSE IF type = "recycling" THEN 2 ELSE 1

\* The policy sort: higher priority first, ties in scan order.
byPriority(pt, pu, scanFirst) == pt > pu \/ (pt = pu /\ scanFirst)

\* The default sort: type order, then distance, ties in scan order.
byType(ot, ou, dt, du, scanFirst) ==
  \/ ot > ou
  \/ ot = ou /\ dt < du
  \/ ot = ou /\ dt = du /\ scanFirst

\* Whether the (stable) sort puts candidate t before candidate u.
sortsBefore(w, cid, home, t, u, policy, wd) ==
  IF policy
    THEN byPriority(priority(w, cid, home, t, wd), priority(w, cid, home, u, wd),
                    scanBefore(home, t, u))
    ELSE byType(typeOrder(jobTypeOf(w.buildings[w.tiles[t]])),
                typeOrder(jobTypeOf(w.buildings[w.tiles[u]])),
                distance(home, t), distance(home, u), scanBefore(home, t, u))

\* availableJobs[0] after the sort.
bestJob(w, cid, home, cands, policy, wd) ==
  CHOOSE t \in cands : \A u \in cands \ {t} : sortsBefore(w, cid, home, t, u, policy, wd)

\* #findJob's ending: the citizen is pushed to the chosen building's workers
\* (unless already there) and the building is returned.
takeJob(w, cid, bid) ==
  [w |-> [w EXCEPT !.buildings[bid].workers = IF InSeq(@, cid) THEN @ ELSE Append(@, cid),
                   !.citizens[cid].workplace = bid],
   building |-> bid]

\* #findJob's search from the residence tile home over the candidates cands.
searchJobs(w, cid, home, cands, policy, wd) ==
  IF home = 0 \/ cands = {} THEN [w |-> w, building |-> 0]
  ELSE takeJob(w, cid, w.tiles[bestJob(w, cid, home, cands, policy, wd)])

\* #findJob once a stale workplace has been dropped.
searchFrom(w, cid, home, policy, wd) ==
  searchJobs(w, cid, home, IF home = 0 THEN {} ELSE candidateTiles(w, cid, home), policy, wd)

\* #findJob's first check: the workplace still stands and lists the citizen.
workplaceValid(w, cid) ==
  /\ w.citizens[cid].workplace # 0
  /\ tileOf(w, w.citizens[cid].workplace) # 0
  /\ InSeq(w.buildings[w.citizens[cid].workplace].workers, cid)

\* #findJob: a workplace that is gone or no longer lists the citizen is cleared.
dropWorkplace(w, cid) ==
  IF w.citizens[cid].workplace = 0 THEN w
  ELSE [w EXCEPT !.buildings[w.citizens[cid].workplace].workers = removeFirst(@, cid),
                 !.citizens[cid].workplace = 0]

\* Citizen.#findJob(city): the world afterwards and the building returned (0 for null).
findJob(w, cid, lvl, wd) ==
  IF workplaceValid(w, cid) THEN [w |-> w, building |-> w.citizens[cid].workplace]
  ELSE searchFrom(dropWorkplace(w, cid), cid, tileOf(w, w.citizens[cid].residence),
                  policyActive(lvl), wd)

\* The capacity the employed branch of Citizen.simulate reads before re-adding:
\* workplace.maxWorkers || (requiredWorkers ? requiredWorkers * 2 : jobs.maxWorkers || 10)
reAddCapacity(b) ==
  IF b.kind = "textile-factory" THEN factoryMaxWorkers("textile")
  ELSE IF jobsMaxWorkers(b) # 0 THEN jobsMaxWorkers(b)
  ELSE 10

\* Citizen.simulate(city), state 'unemployed', once the workplace is known:
\* with one the citizen joins its worker list and becomes employed.
hire(w, cid, bid) ==
  IF bid = 0 THEN [w EXCEPT !.citizens[cid].workplace = 0]
  ELSE [w EXCEPT !.buildings[bid].workers =
                   IF hasJobs(w.buildings[bid]) /\ ~InSeq(@, cid) THEN Append(@, cid) ELSE @,
                 !.citizens[cid].workplace = bid,
                 !.citizens[cid].state = "employed",
                 !.citizens[cid].stateCounter = 0]

hireFound(found, cid) == hire(found.w, cid, found.building)

\* Citizen.simulate(city), state 'unemployed'.
simulateUnemployed(w, cid, lvl, wd) ==
  hireFound(IF w.citizens[cid].workplace = 0
              THEN findJob(w, cid, lvl, wd)
              ELSE [w |-> w, building |-> w.citizens[cid].workplace],
            cid)

\* The employed branch: the citizen loses the job.
fired(w, cid) ==
  [w EXCEPT !.citizens[cid].workplace = 0,
            !.citizens[cid].state = "unemployed",
            !.citizens[cid].stateCounter = 0]

\* The employed branch once the worker list has been looked at: inList says
\* the citizen was in it, reAdd that the citizen was pushed back to it.
keepOrFire(w, cid, bid, inList, reAdd) ==
  IF (inList \/ reAdd) /\ w.citizens[cid].stateCounter = 0 /\ tileOf(w, bid) = 0
    THEN fired([w EXCEPT !.buildings[bid].workers = removeFirst(@, cid)], cid)
  ELSE IF ~(inList \/ reAdd) THEN fired(w, cid)
  ELSE [w EXCEPT !.citizens[cid].stateCounter = (@ + 1) % 20]

reAddWorker(w, cid, bid, inList, reAdd) ==
  keepOrFire(IF reAdd THEN [w EXCEPT !.buildings[bid].workers = Append(@, cid)] ELSE w,
             cid, bid, inList, reAdd)

checkWorkplace(w, cid, bid, inList) ==
  reAddWorker(w, cid, bid, inList,
              /\ hasJobs(w.buildings[bid])
              /\ ~inList
              /\ Len(w.buildings[bid].workers) < reAddCapacity(w.buildings[bid]))

\* Citizen.simulate(city), state 'employed'.  stateCounter is kept modulo 20,
\* the only way the code reads it.
simulateEmployed(w, cid) ==
  IF w.citizens[cid].workplace = 0
    THEN [w EXCEPT !.citizens[cid].state = "unemployed", !.citizens[cid].stateCounter = 0]
  ELSE checkWorkplace(w, cid, w.citizens[cid].workplace,
                      /\ hasJobs(w.buildings[w.citizens[cid].workplace])
                      /\ InSeq(w.buildings[w.citizens[cid].workplace].workers, cid))

\* Citizen.simulate in which an employed citizen looks for a job every tick too.
citizenSimulateRehire(w, cid, lvl, wd) ==
  CASE w.citizens[cid].state \in {"unemployed", "employed"} ->
         hireFound(searchFrom(dropWorkplace(w, cid), cid,
                              tileOf(w, w.citizens[cid].residence), policyActive(lvl), wd), cid)
    [] OTHER -> w

\* Citizen.simulate(city)
citizenSimulate(w, cid, lvl, wd) ==
  CASE w.citizens[cid].state = "unemployed" -> simulateUnemployed(w, cid, lvl, wd)
    [] w.citizens[cid].state = "employed"   -> simulateEmployed(w, cid)
    [] OTHER                                -> w

\* Citizen.dispose()
citizenDispose(w, cid) ==
  LET bid == w.citizens[cid].workplace
  IN IF bid # 0 /\ hasJobs(w.buildings[bid])
       THEN [w EXCEPT !.buildings[bid].workers = removeFirst(@, cid),
                      !.citizens[cid].workplace = 0]
       ELSE [w EXCEPT !.citizens[cid].workplace = 0]

\* new Citizen(residence): age decides the first state.
NewCitizen(residence, state) ==
  [state |-> state, workplace |-> 0, stateCounter |-> 0, residence |-> residence]

\* ResidentsModule.simulate(city): every resident's simulate, in list order.
RECURSIVE residentsSimulate(_, _, _, _, _)
residentsSimulate(w, bid, i, lvl, wd) ==
  IF i > Len(w.buildings[bid].residents) THEN w
  ELSE residentsSimulate(citizenSimulate(w, w.buildings[bid].residents[i], lvl, wd),
                         bid, i + 1, lvl, wd)

\* ResidentsModule.dispose(): every resident is disposed and the list emptied.
RECURSIVE residentsDispose(_, _)
residentsDispose(w, bid) ==
  IF Len(w.buildings[bid].residents) = 0 THEN w
  ELSE residentsDispose(
         [citizenDispose(w, w.buildings[bid].residents[1])
            EXCEPT !.buildings[bid].residents = Tail(@)], bid)

\* A new citizen moves into the residential zone bid.
moveIn(w, bid, state) ==
  [w EXCEPT !.citizens = Append(@, NewCitizen(bid, state)),
            !.buildings[bid].residents = Append(@, Len(w.citizens) + 1)]

\* Highest development level followed.
MaxDevLevel == 2

\* DevelopmentModule.simulate for a zone: what chance decided this tick.
develop(b, chance) ==
  CASE chance = "advance" /\ b.devState = "undeveloped" ->
         [b EXCEPT !.devState = "under-construction"]
    [] chance = "advance" /\ b.devState = "under-construction" ->
         [b EXCEPT !.devState = "developed", !.devLevel = 1]
    [] chance = "advance" /\ b.devState = "developed" /\ b.devLevel < MaxDevLevel ->
         [b EXCEPT !.devLevel = @ + 1]
    [] chance = "advance" /\ b.devState = "abandoned" ->
         [b EXCEPT !.devState = "developed"]
    [] chance = "abandon" /\ b.devState = "developed" ->
         [b EXCEPT !.devState = "abandoned"]
    [] OTHER -> b

\* building.simulate(city, currentTick) for the building on tile t, as far as
\* citizens and jobs go.  chance is this tick's development outcome for
\* commercial zones; newcomer names the residential tile a citizen moves
\* into (0 for none) and arrival the newcomer's first state.
buildingSimulate(w, t, lvl, wd, chance, newcomer, arrival) ==
  LET bid == w.tiles[t]
  IN IF bid = 0 THEN w
     ELSE CASE w.buildings[bid].kind = "residential" ->
                 residentsSimulate(IF newcomer = t THEN moveIn(w, bid, arrival) ELSE w,
                                   bid, 1, lvl, wd)
            [] w.buildings[bid].kind = "commercial" ->
                 jobsSimulate([w EXCEPT !.buildings[bid] = develop(@, chance)], bid)
            [] OTHER -> jobsSimulate(w, bid)

\* City.simulate: every tile's building in scan order.
RECURSIVE citySimulate(_, _, _, _, _, _, _)
citySimulate(w, t, lvl, wd, chance, newcomer, arrival) ==
  IF t > Len(TilePos) THEN w
  ELSE citySimulate(buildingSimulate(w, t, lvl, wd, chance, newcomer, arrival),
                    t + 1, lvl, wd, chance, newcomer, arrival)

\* building.dispose() that leaves the jobs module alone.
buildingDisposeKeepsJobs(w, bid) ==
  IF w.buildings[bid].kind = "residential" THEN residentsDispose(w, bid) ELSE w

\* building.dispose() by kind: residential disposes its residents, commercial
\* zones and factories their jobs module.
buildingDispose(w, bid) ==
  IF w.buildings[bid].kind = "residential" THEN residentsDispose(w, bid)
  ELSE IF hasJobs(w.buildings[bid]) THEN layOffWorkers(w, bid)
  ELSE w

\* City.bulldoze that, on an empty tile, disposes the building placed last.
bulldozeStale(w, t) ==
  IF w.tiles[t] = 0
    THEN IF Len(w.buildings) = 0 THEN w ELSE buildingDispose(w, Len(w.buildings))
    ELSE [buildingDispose(w, w.tiles[t]) EXCEPT !.tiles[t] = 0]

\* City.bulldoze(x, y): nothing on an empty tile; otherwise the building is
\* disposed and taken off the tile.
bulldoze(w, t) ==
  IF w.tiles[t] = 0 THEN w
  ELSE [buildingDispose(w, w.tiles[t]) EXCEPT !.tiles[t] = 0]

\* City.placeBuilding(x, y, type): only on an empty tile.
placeBuilding(w, t, kind) ==
  IF w.tiles[t] # 0 THEN w
  ELSE [w EXCEPT !.buildings = Append(@, NewBuilding(kind)),
                 !.tiles[t] = Len(w.buildings) + 1]

(***************************************************************************)
(* The ledger under arbitrary call sequences                               *)
(***************************************************************************)

\* Largest amount an unlimited resource is driven to.
MaxStock == 120

\* Names the callers pass: two raw materials, a capped waste type, and a name
\* the ledger does not know.
CallNames == {"raw-fabric", "raw-plastic", "textile-waste", "unobtainium"}

\* Amounts the callers pass (fixed-point): 0, 30 and 60 units.
CallAmounts == {0, 30 * Scale, 60 * Scale}

\* Requirement objects the callers pass.
CallRequirements ==
  { <<>> }
    \cup { << <<n, a>> >> : n \in CallNames, a \in CallAmounts \ {0} }
    \cup { << <<n, a>>, <<m, b>> >> :
             n \in {"raw-fabric", "textile-waste"}, a \in {30 * Scale, 60 * Scale},
             m \in {"raw-plastic", "unobtainium"}, b \in {0, 30 * Scale, 60 * Scale} }

NoCall == [op |-> "none", name |-> "", amount |-> 0, req |-> <<>>, ok |-> TRUE,
           before |-> InitialResources]

NoTrace ==
  [op |-> "none", wasteAtEval |-> 0, penalty |-> 10, powered |-> FALSE, original |-> 0,
   adjusted |-> 0, queueBefore |-> <<>>, afterProgress |-> <<>>, completed |-> <<>>,
   enqueued |-> <<>>, levelAtEnqueue |-> 1, ticks |-> 0]

FactoryIdle ==
  /\ factory = NewFactory("textile")
  /\ energy = 0 /\ xp = 0 /\ money = 0
  /\ productionMode = "balanced"
  /\ fTrace = NoTrace

NoCityTrace == [op |-> "none", ticks |-> 0, edits |-> 0, released |-> 0]

\* cityPolicies.workforceDistribution as constructed.
DefaultWorkforce == [factories |-> 60, recycling |-> 20, commercial |-> 20]

CityIdle ==
  /\ tiles = [t \in Tiles |-> 0]
  /\ buildings = <<>>
  /\ citizens = <<>>
  /\ workforceDistribution = DefaultWorkforce
  /\ jTrace = NoCityTrace

\* A new RecyclingCenter (level = 1).
NewCenter == [level |-> 1]

NoScoreTrace == [op |-> "none", ticks |-> 0, clicks |-> 0, recycled |-> 0]

ScoreIdle == circularScore = 0 /\ center = NewCenter /\ sTrace = NoScoreTrace

LedgerIdle == resources = InitialResources /\ lastCall = NoCall
GameIdle == level = 1 /\ currentTick = 0 /\ pollution = InitialPollution
WasteIdle == waste = WasteOfKind["module"] /\ wasteCall = [op |-> "none", clamped |-> FALSE]
\* No GlobalPollution call yet: whether the last call fired the event, the
\* events so far, whether the mean was below 100 since the last event, whether
\* an event fired without that, and the calls made.
NoPollutionTrace ==
  [op |-> "none", fired |-> FALSE, events |-> 0, below |-> TRUE, refired |-> FALSE, calls |-> 0]

\* Game.simulate at rest: the steps of the tick under way, the ticks run.
NoLoopTrace == [pc |-> "idle", steps |-> <<>>, ticks |-> 0, isPaused |-> FALSE, toggles |-> 0]

PollutionIdle == penalties = NewPenalties /\ pTrace = NoPollutionTrace
\* No save in localStorage.
NoSave == [present |-> FALSE]

NoUpgradeTrace == [op |-> "none", ok |-> FALSE, calls |-> 0]

SaveIdle == saveData = NoSave /\ uTrace = NoUpgradeTrace

LoopIdle ==
  /\ market = NewMarket(1)
  /\ salesPolicy = "auto" /\ taxPolicy = "medium"
  /\ lTrace = NoLoopTrace

InitLedger ==
  /\ resources = InitialResources
  /\ lastCall = NoCall
  /\ GameIdle /\ WasteIdle /\ FactoryIdle /\ CityIdle /\ ScoreIdle /\ PollutionIdle /\ LoopIdle /\ SaveIdle

CallAddResource ==
  \E r \in CallNames, a \in CallAmounts :
    LET out == addResource(resources, r, a) IN
      /\ \A n \in DOMAIN out.res : out.res[n] <= MaxStock * Scale
      /\ resources' = out.res
      /\ lastCall' = [op |-> "addResource", name |-> r, amount |-> a, req |-> <<>>,
                      ok |-> out.ok, before |-> resources]
      /\ UNCHANGED ledgerRest

CallRemoveResource ==
  \E r \in CallNames, a \in CallAmounts :
    LET out == removeResource(resources, r, a) IN
      /\ resources' = out.res
      /\ lastCall' = [op |-> "removeResource", name |-> r, amount |-> a, req |-> <<>>,
                      ok |-> out.ok, before |-> resources]
      /\ UNCHANGED ledgerRest

CallConsumeResources ==
  \E req \in CallRequirements :
    LET out == consumeResources(resources, req) IN
      /\ resources' = out.res
      /\ lastCall' = [op |-> "consumeResources", name |-> "", amount |-> 0, req |-> req,
                      ok |-> out.ok, before |-> resources]
      /\ UNCHANGED ledgerRest

NextLedger == CallAddResource \/ CallRemoveResource \/ CallConsumeResources

SpecLedger == InitLedger /\ [][NextLedger]_vars

\* C4: under any sequence of addResource, removeResource and consumeResources
\* calls with non-negative amounts, every amount stays >= 0 and every capped
\* resource stays at or below its cap.
LedgerWithinBounds ==
  \A r \in DOMAIN resources :
    /\ resources[r] >= 0
    /\ (limitOf(r) > 0 => resources[r] <= limitOf(r))

\* An add that would have passed the cap was clamped to it, and a remove of
\* more than the stock was refused.
LedgerBoundsWitness ==
  /\ lastCall.op = "addResource"
  /\ lastCall.name = "textile-waste"
  /\ lastCall.before["textile-waste"] + lastCall.amount > limitOf("textile-waste")
  /\ resources["textile-waste"] = limitOf("textile-waste")
  /\ resources["raw-plastic"] < 30 * Scale

\* C5: consumeResources is all-or-nothing: a false return leaves the ledger
\* as it was, a true return has reduced every listed resource by exactly its
\* required amount (and no other resource has changed).
ConsumeAllOrNothing ==
  lastCall.op = "consumeResources" =>
    /\ (~lastCall.ok => resources = lastCall.before)
    /\ (lastCall.ok =>
          /\ \A i \in 1..Len(lastCall.req) :
               getResource(resources, lastCall.req[i][1])
                 = getResource(lastCall.before, lastCall.req[i][1]) - lastCall.req[i][2]
          /\ \A r \in DOMAIN resources :
               (\A i \in 1..Len(lastCall.req) : lastCall.req[i][1] # r)
                 => resources[r] = lastCall.before[r])

\* A two-entry requirement whose first entry is in stock and whose second is
\* not was refused, and a two-entry requirement was consumed.
ConsumeRefusedWitness ==
  /\ lastCall.op = "consumeResources"
  /\ ~lastCall.ok
  /\ Len(lastCall.req) = 2
  /\ lastCall.req[1][2] > 0
  /\ getResource(lastCall.before, lastCall.req[1][1]) >= lastCall.req[1][2]

(***************************************************************************)
(* One WasteModule under arbitrary call sequences                          *)
(***************************************************************************)

\* Ticks the waste module is followed for.
MaxWasteTick == 7

\* Amounts passed to produce and remove: 0, 1, 20 and 60 units (the recycling
\* center removes at most 1 or at most 20 per building).
WasteAmounts == {0, Scale, 20 * Scale, 60 * Scale}

InitWaste ==
  /\ \E k \in {"factory", "residential", "module"} : waste = WasteOfKind[k]
  /\ wasteCall = [op |-> "none", clamped |-> FALSE]
  /\ level \in {2, 5}
  /\ currentTick = 0
  /\ pollution = InitialPollution
  /\ LedgerIdle /\ FactoryIdle /\ CityIdle /\ ScoreIdle /\ PollutionIdle /\ LoopIdle /\ SaveIdle

WasteCallProduce ==
  \E a \in WasteAmounts :
    /\ waste' = wasteProduce(waste, a)
    /\ wasteCall' = [op |-> "produce", clamped |-> waste.amount + a > maxCapacity]
    /\ UNCHANGED <<wasteRest, gameVars>>

WasteCallRemove ==
  \E a \in WasteAmounts :
    /\ waste' = wasteRemove(waste, a)
    /\ wasteCall' = [op |-> "remove", clamped |-> a > waste.amount]
    /\ UNCHANGED <<wasteRest, gameVars>>

\* One tick passes and the building's simulate calls waste.simulate.
WasteCallSimulate ==
  /\ currentTick < MaxWasteTick
  /\ currentTick' = currentTick + 1
  /\ waste' = wasteSimulate(waste, level, currentTick')
  /\ pollution' = wasteSimulatePollution(waste, level, currentTick', pollution)
  /\ wasteCall' = [op |-> "simulate",
                   clamped |-> /\ wasteEmits(waste, level, currentTick')
                               /\ waste.amount + waste.productionRate > maxCapacity]
  /\ UNCHANGED <<wasteRest, level>>

WasteCallReset ==
  /\ waste' = wasteReset(waste)
  /\ wasteCall' = [op |-> "reset", clamped |-> FALSE]
  /\ UNCHANGED <<wasteRest, gameVars>>

\* The player gains a level (checkLevelUp).
WasteLevelUp ==
  /\ level < MaxPlayerLevel
  /\ level' = level + 1
  /\ UNCHANGED <<wasteRest, wasteVars, currentTick, pollution>>

NextWaste ==
  WasteCallProduce \/ WasteCallRemove \/ WasteCallSimulate \/ WasteCallReset \/ WasteLevelUp

SpecWaste == InitWaste /\ [][NextWaste]_vars

\* C6: after any sequence of produce, remove, simulate and reset calls with
\* non-negative arguments, 0 <= amount <= maxCapacity.
WasteWithinCapacity == 0 <= waste.amount /\ waste.amount <= maxCapacity

\* A periodic emission of simulate ran into the capacity and was clamped.
WasteClampedWitness ==
  /\ wasteCall.op = "simulate"
  /\ wasteCall.clamped
  /\ waste.amount = maxCapacity
(***************************************************************************)
(* One factory over a run of ticks                                         *)
(***************************************************************************)

\* Ticks the factory is followed for.
MaxFactoryTicks == 5

\* The energy pool is followed up to this many units.
MaxEnergy == 20

\* The player's level and XP at the start, the factory's waste with the tick
\* of its last emission (4 units every 3 ticks once waste is unlocked).
FactoryStarts ==
  { [level |-> 1, xp |-> 0,    waste |-> 0,   tick |-> 0],
    [level |-> 2, xp |-> 245,  waste |-> 0,   tick |-> 0],
    [level |-> 3, xp |-> 495,  waste |-> 76,  tick |-> 57],
    [level |-> 4, xp |-> 500,  waste |-> 92,  tick |-> 69],
    [level |-> 6, xp |-> 2000, waste |-> 96,  tick |-> 72] }

\* The stock the factory finds: what is left of the starting stock, with or
\* without recycled material from a recycling center.
FactoryStocks ==
  { [InitialResources EXCEPT !["raw-fabric"] = 7 * Scale, !["raw-plastic"] = Scale,
                             !["raw-metal"] = 8 * Scale],
    [InitialResources EXCEPT !["raw-fabric"] = 4 * Scale, !["raw-plastic"] = 0,
                             !["raw-metal"] = 2 * Scale,
                             !["recycled-metal"] = 3 * Scale,
                             !["recycled-plastic"] = Scale] }

InitFactory ==
  /\ \E k \in FactoryKinds : factory = NewFactory(k)
  /\ \E s \in FactoryStarts :
       /\ level = s.level /\ xp = s.xp /\ currentTick = s.tick
       /\ waste = [WasteOfKind["factory"] EXCEPT !.amount = s.waste * Scale,
                                                 !.lastProductionTick = s.tick]
  /\ resources \in FactoryStocks
  /\ lastCall = NoCall
  /\ pollution = InitialPollution
  /\ wasteCall = [op |-> "none", clamped |-> FALSE]
  /\ energy = 0
  /\ money = 14000 * Cent
  /\ productionMode = "balanced"
  /\ fTrace = NoTrace
  /\ CityIdle /\ ScoreIdle /\ PollutionIdle /\ LoopIdle /\ SaveIdle

\* One tick: Game.simulate advances currentTick and City.simulate reaches the factory.
FactorySimulate ==
  /\ fTrace.ticks < MaxFactoryTicks
  /\ LET out == factorySimulate([factory |-> factory, res |-> resources, energy |-> energy,
                                 xp |-> xp, level |-> level, waste |-> waste,
                                 pollution |-> pollution], currentTick + 1, productionMode)
     IN /\ currentTick' = currentTick + 1
        /\ factory' = out.factory
        /\ resources' = out.res
        /\ energy' = out.energy
        /\ xp' = out.xp
        /\ level' = out.level
        /\ waste' = out.waste
        /\ pollution' = out.pollution
        /\ fTrace' = [out.trace EXCEPT !.ticks = fTrace.ticks + 1]
  /\ UNCHANGED <<factoryRest, lastCall, wasteCall, money, productionMode>>

\* The player upgrades the factory.
FactoryUpgrade ==
  /\ LET out == upgrade(factory, money)
     IN /\ factory' = out.factory
        /\ money' = out.money
  /\ UNCHANGED <<factoryRest, ledgerVars, gameVars, wasteVars, energy, xp, productionMode, fTrace>>

\* A power plant's simulate adds 10 energy to the pool.
PowerPlantSimulate ==
  /\ energy + 10 <= MaxEnergy
  /\ energy' = energy + 10
  /\ UNCHANGED <<factoryRest, ledgerVars, gameVars, wasteVars, factory, xp, money, productionMode, fTrace>>

\* Citizens take jobs at the factory or leave it (Citizen.#findJob, Citizen.dispose).
FactoryStaffing ==
  /\ \E n \in {0, requiredWorkers(factory.kind)} :
       /\ n # factory.workers
       /\ factory' = [factory EXCEPT !.workers = n]
  /\ UNCHANGED <<factoryRest, ledgerVars, gameVars, wasteVars, energy, xp, money, productionMode, fTrace>>

\* The player picks a production mode in the policy panel.
SetProductionMode ==
  /\ policyActive(level)
  /\ \E m \in ProductionModes :
       /\ m # productionMode
       /\ productionMode' = m
  /\ UNCHANGED <<factoryRest, ledgerVars, gameVars, wasteVars, factory, energy, xp, money, fTrace>>

NextFactory ==
  FactorySimulate \/ FactoryUpgrade \/ PowerPlantSimulate \/ FactoryStaffing \/ SetProductionMode

SpecFactory == InitFactory /\ [][NextFactory]_vars

\* The factor getEfficiencyPenalty must yield at a waste amount, in tenths.
ExpectedWasteFactor(a) ==
  IF a = 100 * Scale THEN 0
  ELSE IF a >= 95 * Scale THEN 5
  ELSE IF a >= 80 * Scale THEN 8
  ELSE 10

\* C7: the waste factor applied to a factory's production in a tick is 0 when
\* its waste amount is 100 (no queued job progresses, no job is enqueued),
\* 0.5 in [95,100), 0.8 in [80,95) and 1 below 80.
WasteFactorApplied ==
  fTrace.op = "simulate" =>
    /\ fTrace.penalty = ExpectedWasteFactor(fTrace.wasteAtEval)
    /\ fTrace.adjusted = (fTrace.original * ExpectedWasteFactor(fTrace.wasteAtEval)) \div 10
    /\ fTrace.wasteAtEval = 100 * Scale =>
         /\ fTrace.afterProgress = fTrace.queueBefore
         /\ fTrace.enqueued = <<>>
         /\ fTrace.completed = <<>>

\* A powered, staffed factory with jobs in its queue stood still at waste 100.
WasteStopsFactoryWitness ==
  /\ fTrace.op = "simulate"
  /\ fTrace.wasteAtEval = 100 * Scale
  /\ fTrace.powered
  /\ fTrace.original > 0
  /\ Len(fTrace.queueBefore) > 0
  /\ Len(fTrace.queueBefore) < maxQueueSize
  /\ factory.productionQueue = fTrace.queueBefore

\* The factor 0.5 was applied to a running factory.
WasteSlowsFactoryWitness ==
  /\ fTrace.op = "simulate"
  /\ fTrace.powered
  /\ fTrace.original > 0
  /\ fTrace.penalty = 5
  /\ fTrace.adjusted = fTrace.original \div 2

\* C8: every job that enters the production queue has recipe.requiredLevel <=
\* the factory's level at the moment of enqueueing, whatever the player level,
\* the ledger and the policies are; so every queued job is within the level.
RecipeGating ==
  /\ fTrace.op = "simulate" =>
       \A i \in 1..Len(fTrace.enqueued) : fTrace.enqueued[i].requiredLevel <= fTrace.levelAtEnqueue
  /\ \A i \in 1..Len(factory.productionQueue) :
       factory.productionQueue[i].requiredLevel <= factory.level

\* A running steel factory below level 3 could pay for the level-3 recipe
\* only, and enqueued nothing.
RecipeGatingWitness ==
  /\ fTrace.op = "simulate"
  /\ fTrace.adjusted > 0
  /\ factory.kind = "steel"
  /\ factory.level < 3
  /\ hasResources(resources, recipes("steel")[3].inputs)
  /\ ~hasResources(resources, recipes("steel")[1].inputs)
  /\ fTrace.enqueued = <<>>
  /\ Len(factory.productionQueue) < maxQueueSize

(***************************************************************************)
(* A city of two residential zones, a factory site and a shop site         *)
(***************************************************************************)

\* Ticks and player edits the city is followed for, and citizens ever created.
MaxCityTicks == 3
MaxEdits == 1
MaxCitizens == 26

\* Two developed residential zones on the first and the last tile, thirteen
\* and twelve residents, 23 of them of working age, and a commercial zone
\* under construction on the second tile: nobody has found a job yet.
InitCity ==
  /\ tiles = <<1, 3, 0, 2>>
  /\ buildings =
       << [NewBuilding("residential") EXCEPT !.devState = "developed",
                                            !.residents = <<1, 2, 3, 4, 5, 6, 7, 8, 9, 10, 11, 12, 13>>],
          [NewBuilding("residential") EXCEPT !.devState = "developed",
                                            !.residents = <<14, 15, 16, 17, 18, 19, 20, 21, 22, 23, 24, 25>>],
          [NewBuilding("commercial") EXCEPT !.devState = "under-construction"] >>
  /\ citizens = [c \in 1..25 |->
                   NewCitizen(IF c <= 13 THEN 1 ELSE 2,
                              IF c = 13 THEN "retired"
                              ELSE IF c = 25 THEN "school" ELSE "unemployed")]
  /\ workforceDistribution = DefaultWorkforce
  /\ level \in {1, 4}
  /\ jTrace = NoCityTrace
  /\ currentTick = 0
  /\ pollution = InitialPollution
  /\ LedgerIdle /\ WasteIdle /\ FactoryIdle /\ ScoreIdle /\ PollutionIdle /\ LoopIdle /\ SaveIdle

World == [tiles |-> tiles, buildings |-> buildings, citizens |-> citizens]

\* The residential tiles a citizen may move into this tick.
OpenHomes ==
  IF Len(citizens) >= MaxCitizens THEN {}
  ELSE {t \in Tiles : tiles[t] # 0 /\ buildings[tiles[t]].kind = "residential"}

\* The city after a step is the world w.
CityBecomes(w) ==
  /\ tiles' = w.tiles
  /\ buildings' = w.buildings
  /\ citizens' = w.citizens

\* The citizens who were employed before a step and are unemployed in w.
Released(w) ==
  Cardinality({c \in DOMAIN citizens :
                 citizens[c].state = "employed" /\ w.citizens[c].state = "unemployed"})

TickTo(w) ==
  /\ CityBecomes(w)
  /\ jTrace' = [jTrace EXCEPT !.op = "tick", !.ticks = @ + 1, !.released = Released(w)]

\* Game.simulate: the tick counter advances and City.simulate runs every building.
CityTick ==
  /\ jTrace.ticks < MaxCityTicks
  /\ \E chance \in {"stay", "advance", "abandon"}, newcomer \in {0} \cup OpenHomes :
       TickTo(citySimulate(World, 1, level, workforceDistribution, chance, newcomer,
                           "unemployed"))
  /\ currentTick' = currentTick + 1
  /\ UNCHANGED <<pollutionVars, loopVars, saveVars, ledgerVars, wasteVars, factoryVars, scoreVars, level, pollution, workforceDistribution>>

EditTo(w, op) ==
  /\ CityBecomes(w)
  /\ jTrace' = [jTrace EXCEPT !.op = op, !.edits = @ + 1, !.released = Released(w)]

\* The player uses the bulldoze tool on a tile, with or without a building.
CityBulldoze ==
  /\ jTrace.edits < MaxEdits
  /\ \E t \in Tiles : EditTo(bulldoze(World, t), "bulldoze")
  /\ UNCHANGED <<pollutionVars, loopVars, saveVars, ledgerVars, gameVars, wasteVars, factoryVars, scoreVars, workforceDistribution>>

\* The player places a building on an empty tile.
CityPlaceBuilding ==
  /\ jTrace.edits < MaxEdits
  /\ \E t \in Tiles, kind \in {"commercial", "textile-factory"} :
       tiles[t] = 0 /\ EditTo(placeBuilding(World, t, kind), "place")
  /\ UNCHANGED <<pollutionVars, loopVars, saveVars, ledgerVars, gameVars, wasteVars, factoryVars, scoreVars, workforceDistribution>>

\* The player moves the workforce sliders of the policy panel.
SetWorkforceDistribution ==
  /\ policyActive(level)
  /\ \E wd \in {DefaultWorkforce, [factories |-> 10, recycling |-> 20, commercial |-> 70]} :
       /\ wd # workforceDistribution
       /\ workforceDistribution' = wd
  /\ UNCHANGED <<pollutionVars, loopVars, saveVars, ledgerVars, gameVars, wasteVars, factoryVars, scoreVars, tiles, buildings, citizens, jTrace>>

NextCity == CityTick \/ CityBulldoze \/ CityPlaceBuilding \/ SetWorkforceDistribution

SpecCity == InitCity /\ [][NextCity]_vars

\* The citizens living in the city: residents of a building on the grid.
Living == {c \in DOMAIN citizens :
             \E t \in Tiles : tiles[t] # 0 /\ InSeq(buildings[tiles[t]].residents, c)}

JobSites == {b \in DOMAIN buildings : hasJobs(buildings[b])}

\* C1: for every citizen c and every building B with a jobs module,
\* c.workplace is B iff c is in B.jobs.workers; no citizen is in two worker
\* lists and none appears twice in one list.
WorkerBijection ==
  /\ \A c \in DOMAIN citizens : \A b \in JobSites :
       (citizens[c].workplace = b) <=> InSeq(buildings[b].workers, c)
  /\ \A b \in JobSites : \A i, j \in 1..Len(buildings[b].workers) :
       buildings[b].workers[i] = buildings[b].workers[j] => i = j
  /\ \A a, b \in JobSites : \A c \in DOMAIN citizens :
       InSeq(buildings[a].workers, c) /\ InSeq(buildings[b].workers, c) => a = b

\* After a tick a factory and a shop both hold workers, and somebody who had
\* no opening is still looking.
WorkerBijectionWitness ==
  /\ jTrace.op = "tick"
  /\ \E a, b \in JobSites :
       /\ buildings[a].kind = "textile-factory" /\ Len(buildings[a].workers) > 0
       /\ buildings[b].kind = "commercial" /\ Len(buildings[b].workers) > 0
  /\ \E c \in Living : citizens[c].state = "unemployed"

\* C2: a citizen's workplace is non-null iff the citizen's state is 'employed'.
EmployedIffWorkplace ==
  \A c \in Living : (citizens[c].workplace # 0) <=> (citizens[c].state = "employed")

\* Employed citizens lost their job in the last step (their zone was
\* abandoned or bulldozed): somebody is unemployed with no workplace while
\* others are still employed with one.
LaidOffWitness ==
  /\ jTrace.released > 0
  /\ \E c \in Living : citizens[c].state = "unemployed" /\ citizens[c].workplace = 0
  /\ \E c \in Living : citizens[c].state = "employed" /\ citizens[c].workplace # 0

\* C3: the number of citizens in a building's worker list is at most the
\* building's current maxWorkers (factories: requiredWorkers * 2).
WorkersWithinCapacity ==
  \A b \in JobSites : Len(buildings[b].workers) <= jobsMaxWorkers(buildings[b])

\* A factory on the grid is full (20 workers) and a working-age citizen within
\* reach of it went through a tick without a job.
FactoryFullWitness ==
  /\ jTrace.op = "tick"
  /\ \E t \in Tiles :
       /\ tiles[t] # 0
       /\ buildings[tiles[t]].kind = "textile-factory"
       /\ Len(buildings[tiles[t]].workers) = factoryMaxWorkers("textile")
       /\ \E c \in Living :
            /\ citizens[c].state = "unemployed"
            /\ tileOf(World, citizens[c].residence) # 0
            /\ distance(tileOf(World, citizens[c].residence), t) <= maxJobSearchDistance

(***************************************************************************)
(* The circular score (gameState.js) and the recycling center              *)
(* (recyclingCenter.js)                                                    *)
(***************************************************************************)

\* Math.round of a fixed-point number, as a whole number.
round(x) == (x + Scale \div 2) \div Scale

\* Math.floor of a non-negative fixed-point number, still fixed-point.
floor(x) == (x \div Scale) * Scale

\* The sum of the ledger entries named in the sequence names.
RECURSIVE sumOf(_, _, _)
sumOf(res, names, i) ==
  IF i > Len(names) THEN 0 ELSE getResource(res, names[i]) + sumOf(res, names, i + 1)

\* recycledMaterials
recycledMaterials(res) ==
  sumOf(res, <<"recycled-fabric", "recycled-metal", "recycled-plastic", "recycled-electronics">>, 1)

\* totalProducts
totalProducts(res) ==
  sumOf(res, <<"clothing", "smartphone", "laptop", "steel-beam", "steel-structure",
               "electric-car", "electric-bike">>, 1)

\* The buildings on the grid that satisfy Is.
CountTiles(w, Is(_)) ==
  Cardinality({t \in Tiles : w.tiles[t] # 0 /\ Is(w.buildings[w.tiles[t]])})

isRecyclingCenter(b) == b.kind = "recycling-center"
isRenewable(b) == b.kind \in {"solar-panel", "wind-turbine", "hydro-plant"}
isEcoShop(b) == b.kind = "commercial" /\ b.devState = "developed"
isCommercial(b) == b.kind = "commercial"

\* totalEnergyProduction: no renewable building sets energyProduction, so the
\* estimate level * 5 is taken, and every renewable building is of level 1.
totalEnergyProduction(w) == CountTiles(w, isRenewable) * 5

\* The five components and the two penalties, from the totalWaste tw, the
\* recycled materials rm, the products tp (fixed-point) and the counts of
\* recycling centers rc, renewable sources rs, their energy production ep and
\* eco shops es.
wasteReductionScore(tw) == Max(0, 20 * Scale - tw \div 25)
recyclingScore(rm, rc) == Min(20 * Scale, rm \div 2 + rc * 5 * Scale)
resourceEfficiencyScore(tp, rm) == Min(25 * Scale, tp \div 10 + (rm \div 10) * 3)
renewableEnergyScore(rs, ep) == Min(20 * Scale, rs * 3 * Scale + (ep * Scale) \div 5)
lifecycleScore(es) == Min(10 * Scale, es * 2 * Scale)
circularMaterialScore(rm) == Min(5 * Scale, rm \div 10)
highWastePenalty(tw) == IF tw > 400 * Scale THEN (tw - 400 * Scale) \div 10 ELSE 0
noCenterPenalty(tw, rc) == IF tw > 0 /\ rc = 0 THEN 10 * Scale ELSE 0

\* score before the final clamp (fixed-point).
scoreFrom(tw, rm, tp, rc, rs, ep, es) ==
  wasteReductionScore(tw) + recyclingScore(rm, rc) + resourceEfficiencyScore(tp, rm)
    + renewableEnergyScore(rs, ep) + lifecycleScore(es) + circularMaterialScore(rm)
    - highWastePenalty(tw) - noCenterPenalty(tw, rc)

rawScore(res, w) ==
  scoreFrom(getTotalWaste(res), recycledMaterials(res), totalProducts(res),
            CountTiles(w, isRecyclingCenter), CountTiles(w, isRenewable),
            totalEnergyProduction(w), CountTiles(w, isEcoShop))

\* calculateCircularScore with the lower clamp left out.
calculateCircularScoreNoFloor(res, w) == Min(100, round(rawScore(res, w)))

\* calculateCircularScore(): Math.max(0, Math.min(100, Math.round(score))).
calculateCircularScore(res, w) == Max(0, Min(100, round(rawScore(res, w))))

\* updateCircularScore(amount): the stored score afterwards.
updateCircularScore(score, amount) == IF score + amount < 0 THEN 0 ELSE score + amount

\* RecyclingCenter.energyConsumption, efficiencyByLevel (percent) and
\* autoRecyclingRateByLevel.
centerEnergyConsumption == 8
efficiencyByLevel(l) == CASE l = 1 -> 50 [] l = 2 -> 70 [] l = 3 -> 90 [] OTHER -> 50
autoRecyclingRateByLevel(l) == CASE l = 1 -> 2 [] l = 2 -> 4 [] l = 3 -> 6 [] OTHER -> 2

\* wasteRecipes, in Object.entries order.
wasteRecipes ==
  << <<"textile-waste", "recycled-fabric">>, <<"e-waste", "recycled-electronics">>,
     <<"scrap-metal", "recycled-metal">>, <<"plastic-waste", "recycled-plastic">> >>

recycledTypeOf(wasteType) ==
  IF \E i \in 1..Len(wasteRecipes) : wasteRecipes[i][1] = wasteType
    THEN (CHOOSE r \in {wasteRecipes[i] : i \in 1..Len(wasteRecipes)} : r[1] = wasteType)[2]
    ELSE "none"

\* toRecycle * efficiency
recycledAmount(toRecycle, eff) == (toRecycle \div 100) * eff

\* One entry of the global-waste loop: the waste leaves the ledger and the
\* recycled material enters it.
recycleEntry(res, wasteType, recycledType, toRecycle, eff) ==
  addResource(removeResource(res, wasteType, toRecycle).res,
              recycledType, recycledAmount(toRecycle, eff)).res

\* The global-waste loop from entry i on, at most cap per waste type: the
\* ledger afterwards and what it adds to totalRecycled.
RECURSIVE recycleGlobal(_, _, _, _)
addRecycled(out, amount) == [res |-> out.res, total |-> out.total + amount]

recycleGlobal(res, cap, eff, i) ==
  IF i > Len(wasteRecipes) THEN [res |-> res, total |-> 0]
  ELSE IF getResource(res, wasteRecipes[i][1]) > 0
    THEN addRecycled(
           recycleGlobal(recycleEntry(res, wasteRecipes[i][1], wasteRecipes[i][2],
                                      Min(getResource(res, wasteRecipes[i][1]), cap), eff),
                         cap, eff, i + 1),
           recycledAmount(Min(getResource(res, wasteRecipes[i][1]), cap), eff))
  ELSE recycleGlobal(res, cap, eff, i + 1)

\* The local-waste loop over the one building with a waste module: what is
\* taken from it, at most perBuilding.
localToRecycle(wm, perBuilding) ==
  IF wm.amount > 0 /\ recycledTypeOf(wm.wasteType) # "none"
    THEN Min(wm.amount, perBuilding) ELSE 0

\* The game as the recycling code sees it.
Game == [resources |-> resources, waste |-> waste, pollution |-> pollution, xp |-> xp,
         level |-> level, energy |-> energy, circularScore |-> circularScore, recycled |-> 0]

\* The end of processRecycling / processAutoRecycling: XP and score for
\* totalRecycled, the XP being xpShare percent of it and the score scoreShare percent.
rewardRecycling(g, total, xpShare, scoreShare) ==
  IF total > 0
    THEN [g EXCEPT !.xp = @ + floor((total \div 100) * xpShare) \div Scale,
                   !.level = checkLevelUp(@, g.xp + floor((total \div 100) * xpShare) \div Scale),
                   !.circularScore =
                      updateCircularScore(@, floor((total \div 100) * scoreShare)),
                   !.recycled = total]
    ELSE g

\* The local-waste loop and what follows it.
recycleLocal(g, globalTotal, toRecycle, eff, xpShare, scoreShare) ==
  rewardRecycling(
    [g EXCEPT !.waste = IF toRecycle > 0 THEN wasteRemove(@, toRecycle) ELSE @,
              !.resources = IF toRecycle > 0
                              THEN addResource(@, recycledTypeOf(g.waste.wasteType),
                                               recycledAmount(toRecycle, eff)).res
                              ELSE @,
              !.pollution = IF toRecycle > 0
                              THEN pollutionRemoveWaste(@, g.waste.wasteType, toRecycle \div 10)
                              ELSE @],
    globalTotal + recycledAmount(toRecycle, eff), xpShare, scoreShare)

withGlobal(g, out, perBuilding, eff, xpShare, scoreShare) ==
  recycleLocal([g EXCEPT !.resources = out.res], out.total,
               localToRecycle(g.waste, perBuilding), eff, xpShare, scoreShare)

\* processRecycling(): the manual operation, 20 per waste type and per building.
processRecycling(g, c) ==
  IF ~isFullyPowered(centerEnergyConsumption, g.energy) THEN g
  ELSE withGlobal(g, recycleGlobal(g.resources, 20 * Scale, efficiencyByLevel(c.level), 1),
                  20 * Scale, efficiencyByLevel(c.level), 100, 200)

\* startRecycling(): needs power, pays energyConsumption, then recycles.
startRecycling(g, c) ==
  IF ~isFullyPowered(centerEnergyConsumption, g.energy) THEN g
  ELSE processRecycling([g EXCEPT !.energy = consumeEnergy(@, centerEnergyConsumption)], c)

\* processAutoRecycling that takes the manual amount, 20 per waste type.
processAutoRecyclingManualRate(g, c) ==
  IF ~isFullyPowered(centerEnergyConsumption, g.energy) THEN g
  ELSE withGlobal(g, recycleGlobal(g.resources, 20 * Scale, efficiencyByLevel(c.level), 1),
                  Scale, efficiencyByLevel(c.level), 50, 100)

\* processAutoRecycling(): rate per waste type, 1 per building.
processAutoRecycling(g, c) ==
  IF ~isFullyPowered(centerEnergyConsumption, g.energy) THEN g
  ELSE withGlobal(g, recycleGlobal(g.resources, autoRecyclingRateByLevel(c.level) * Scale,
                                   efficiencyByLevel(c.level), 1),
                  Scale, efficiencyByLevel(c.level), 50, 100)

\* RecyclingCenter.simulate: Building.simulate draws the power, then the
\* automatic recycling runs if the pool still covers the requirement.
centerSimulate(g, c) ==
  processAutoRecycling(
    [g EXCEPT !.energy = buildingDrawPower(centerEnergyConsumption, @)], c)

\* Commercial.simulate as far as the score goes: each sale is addXP(0.5) and
\* updateCircularScore(0.2); sales come in pairs here, so XP stays whole.
sellPair(g) ==
  [g EXCEPT !.xp = @ + 1,
            !.level = checkLevelUp(checkLevelUp(@, g.xp), g.xp + 1),
            !.circularScore = updateCircularScore(updateCircularScore(@, Scale \div 5),
                                                  Scale \div 5)]

\* City.simulate as far as the score goes: the recycling center and the eco
\* shops on the grid; pairs is the number of sale pairs the shops make.
scoreCitySimulate(g, w, c, pairs) ==
  IF CountTiles(w, isRecyclingCenter) > 0
    THEN IF pairs > 0 THEN sellPair(centerSimulate(g, c)) ELSE centerSimulate(g, c)
  ELSE IF pairs > 0 THEN sellPair(g) ELSE g

\* Game.simulate: the production mode's effect on the score (policy panel
\* unlocked), then the city.
scoreTickCity(g, w, c, mode, pairs) ==
  scoreCitySimulate(
    IF policyActive(g.level) /\ getProductionModeEffects(mode).circularScore # 0
      THEN [g EXCEPT !.circularScore =
                        updateCircularScore(@, getProductionModeEffects(mode).circularScore * Scale)]
      ELSE g,
    w, c, pairs)

\* Game.simulate's last step: from level 3 on the score is recalculated.
scoreTickEnd(g, w) ==
  IF g.level >= 3
    THEN [g EXCEPT !.circularScore = calculateCircularScore(g.resources, w) * Scale]
    ELSE g

gameSimulate(g, w, c, mode, pairs) == scoreTickEnd(scoreTickCity(g, w, c, mode, pairs), w)

(***************************************************************************)
(* RecyclingCenter.upgrade (recyclingCenter.js), save and load (saveLoad)  *)
(***************************************************************************)

\* RecyclingCenter.maxLevel
centerMaxLevel == 3

\* RecyclingCenter.getUpgradeCost(): floor(12000 * 1.3^level)
centerUpgradeCost(c) ==
  CASE c.level = 1 -> (12000 * 13) \div 10
    [] c.level = 2 -> (12000 * 169) \div 100
    [] OTHER       -> (12000 * 2197) \div 1000

\* RecyclingCenter.upgrade() without the maxLevel test.
centerUpgradeNoMax(c, m) ==
  LET paid == spendMoney(m, centerUpgradeCost(c) * Cent)
  IN IF paid.ok
       THEN [center |-> [c EXCEPT !.level = @ + 1], money |-> paid.money, ok |-> TRUE]
       ELSE [center |-> c, money |-> m, ok |-> FALSE]

\* RecyclingCenter.upgrade(): the center and the money afterwards.
centerUpgrade(c, m) ==
  IF c.level >= centerMaxLevel THEN [center |-> c, money |-> m, ok |-> FALSE]
  ELSE LET paid == spendMoney(m, centerUpgradeCost(c) * Cent)
       IN IF paid.ok
            THEN [center |-> [c EXCEPT !.level = @ + 1], money |-> paid.money, ok |-> TRUE]
            ELSE [center |-> c, money |-> m, ok |-> FALSE]

\* value || fallback, for numbers.
orDefault(x, fallback) == IF x = 0 THEN fallback ELSE x

\* saveGame(): the totals, the ledger, the policies and a record per building.
saveGame(m, e, lvl, x, score, res, mode, sales, tax, wd, f, c) ==
  [present |-> TRUE, money |-> m, energy |-> e, level |-> lvl, xp |-> x,
   circularScore |-> score, resources |-> res, productionMode |-> mode,
   salesPolicy |-> sales, taxPolicy |-> tax, workforceDistribution |-> wd,
   factoryKind |-> f.kind, factoryLevel |-> orDefault(f.level, 1),
   centerLevel |-> orDefault(c.level, 1)]

\* reconstructCity(): createBuilding, then the saved level if there is one.
reconstructFactory(sd) ==
  [NewFactory(sd.factoryKind) EXCEPT !.level = IF sd.factoryLevel # 0 THEN sd.factoryLevel ELSE @]

reconstructCenter(sd) ==
  [NewCenter EXCEPT !.level = IF sd.centerLevel # 0 THEN sd.centerLevel ELSE @]

\* The type strings createBuilding's switch knows.
BuildingTypes ==
  {"residential", "commercial", "industrial", "farming", "road", "textile-factory",
   "technology-factory", "steel-factory", "automotive-factory", "recycling-center",
   "solar-panel", "wind-turbine", "hydro-plant"}

\* null, as createBuilding returns it.
Null == [kind |-> "null"]

\* createBuilding(x, y, type): a new building, or null for a type the switch
\* does not know.
createBuilding(type) == IF type \in BuildingTypes THEN NewBuilding(type) ELSE Null

\* The loop of reconstructCity over saveData.city.buildings from record i on:
\* a record whose tile is off the grid or whose building cannot be created is
\* skipped (continue), the others are built and set on their tile.
RECURSIVE reconstructFrom(_, _, _)
reconstructFrom(recs, w, i) ==
  IF i > Len(recs) THEN w
  ELSE LET rec == recs[i]
           made == createBuilding(rec.type)
           building == IF made.kind # "textile-factory" /\ rec.developmentState # "none"
                         THEN [made EXCEPT !.devState = rec.developmentState,
                                           !.devLevel = orDefault(rec.developmentLevel, 1)]
                         ELSE made
       IN IF rec.tile \notin Tiles \/ made = Null
            THEN reconstructFrom(recs, w, i + 1)
            ELSE reconstructFrom(recs,
                                 [w EXCEPT !.buildings = Append(@, building),
                                           !.tiles[rec.tile] = Len(w.buildings) + 1],
                                 i + 1)

\* reconstructCity(saveData, city): the city afterwards and the returned boolean.
reconstructCity(sd, w) ==
  IF ~sd.present THEN [world |-> w, ok |-> FALSE]
  ELSE [world |-> reconstructFrom(sd.buildings, w, 1), ok |-> TRUE]

(***************************************************************************)
(* The score under ticks and manual recycling                              *)
(***************************************************************************)

\* Ticks and recycling clicks the score is followed for.
MaxScoreTicks == 3
MaxClicks == 2

\* The ledger with every entry of names set to amount.
withStock(res, names, amount) ==
  [r \in DOMAIN res |-> IF r \in names THEN amount ELSE res[r]]

\* Ledgers the game can hold: the new game's, one with 10 e-waste, every
\* waste type at its cap, the four recyclable waste types at 40, and a city
\* that has recycled and produced a lot.
ScoreStocks ==
  { InitialResources,
    [InitialResources EXCEPT !["e-waste"] = 10 * Scale],
    withStock(InitialResources, WasteTypes, 100 * Scale),
    withStock(InitialResources, WasteTypes \ {"organic-waste"}, 40 * Scale),
    withStock(withStock(InitialResources, RecycledTypes, 30 * Scale),
              {"clothing", "steel-beam"}, 60 * Scale) }

\* A recycling center, a solar panel and two eco shops, and the tiles they
\* stand on: all four, all but the recycling center, or none.
ScoreBuildings ==
  << NewBuilding("recycling-center"), NewBuilding("solar-panel"),
     [NewBuilding("commercial") EXCEPT !.devState = "developed"],
     [NewBuilding("commercial") EXCEPT !.devState = "developed"] >>

ScoreCities == { <<1, 2, 3, 4>>, <<0, 2, 3, 4>>, <<0, 0, 0, 0>> }

\* Player levels and XP the score is followed from.
ScoreStarts ==
  { [level |-> 2, xp |-> 100], [level |-> 3, xp |-> 250],
    [level |-> 3, xp |-> 480], [level |-> 5, xp |-> 1000] }

InitScore ==
  /\ resources \in ScoreStocks
  /\ lastCall = NoCall
  /\ \E s \in ScoreStarts : level = s.level /\ xp = s.xp
  /\ tiles \in ScoreCities
  /\ level >= 3 \/ tiles[1] = 0
  /\ buildings = ScoreBuildings
  /\ citizens = <<>>
  /\ workforceDistribution = DefaultWorkforce
  /\ jTrace = NoCityTrace
  /\ \E l \in {1, 3} : center = [NewCenter EXCEPT !.level = l]
  /\ \E a \in {0, 30} : waste = [WasteOfKind["factory"] EXCEPT !.amount = a * Scale]
  /\ wasteCall = [op |-> "none", clamped |-> FALSE]
  /\ pollution = InitialPollution
  /\ currentTick = 0
  /\ factory = NewFactory("textile")
  /\ energy = 0 /\ money = 0
  /\ productionMode = "balanced"
  /\ fTrace = NoTrace
  /\ circularScore = 0
  /\ sTrace = NoScoreTrace
  /\ PollutionIdle /\ LoopIdle /\ SaveIdle

\* The game after a step is g.
GameBecomes(g) ==
  /\ resources' = g.resources
  /\ waste' = g.waste
  /\ pollution' = g.pollution
  /\ xp' = g.xp
  /\ level' = g.level
  /\ energy' = g.energy
  /\ circularScore' = g.circularScore

ScoreTickTo(g) ==
  /\ GameBecomes(g)
  /\ sTrace' = [sTrace EXCEPT !.op = "tick", !.ticks = @ + 1, !.recycled = g.recycled]

\* Game.simulate
ScoreTick ==
  /\ sTrace.ticks < MaxScoreTicks
  /\ \E pairs \in {0, 1} :
       /\ pairs = 0 \/ (isUnlocked("eco-shop", level) /\ CountTiles(World, isEcoShop) > 0)
       /\ ScoreTickTo(gameSimulate(Game, World, center, productionMode, pairs))
  /\ currentTick' = currentTick + 1
  /\ UNCHANGED <<pollutionVars, loopVars, saveVars, cityVars, lastCall, wasteCall, factory, money, productionMode, fTrace, center>>

ScoreClickTo(g) ==
  /\ GameBecomes(g)
  /\ sTrace' = [sTrace EXCEPT !.op = "recycle", !.clicks = @ + 1, !.recycled = g.recycled]

\* Game.processRecycling(x, y): the player clicks the recycling center's button.
ScoreProcessRecycling ==
  /\ sTrace.clicks < MaxClicks
  /\ CountTiles(World, isRecyclingCenter) > 0
  /\ ScoreClickTo(startRecycling(Game, center))
  /\ UNCHANGED <<pollutionVars, loopVars, saveVars, cityVars, lastCall, wasteCall, factory, money, productionMode, fTrace, center,
                 currentTick>>

NextScore == ScoreTick \/ ScoreProcessRecycling \/ PowerPlantSimulate \/ SetProductionMode

SpecScore == InitScore /\ [][NextScore]_vars

\* C9: calculateCircularScore() returns a value in [0,100] for every world
\* state: whatever the ledger, the buildings on the grid and the waste levels.
ScoreWithinBounds ==
  /\ calculateCircularScore(resources, World) \in 0..100
  /\ (sTrace.op = "tick" /\ level >= 3) =>
       circularScore = calculateCircularScore(resources, World) * Scale

\* A tick recalculated the score of a city whose penalties outweigh its
\* components: the sum is negative and the stored score is 0.
ScoreClampedWitness ==
  /\ sTrace.op = "tick"
  /\ level >= 3
  /\ rawScore(resources, World) < 0
  /\ circularScore = 0

\* C10: the stored circular score is within [0,100] at the end of every
\* tick and after every recycling operation, at every player level.
StoredScoreWithinBounds ==
  sTrace.op \in {"tick", "recycle"} =>
    (circularScore >= 0 /\ circularScore <= 100 * Scale)

\* The stored circular score is within [0,100] at the end of every tick.
StoredScoreWithinBoundsAfterTick ==
  sTrace.op = "tick" => (circularScore >= 0 /\ circularScore <= 100 * Scale)

(***************************************************************************)
(* A staffed factory working through its queue                             *)
(***************************************************************************)

\* The player's level and XP when the factory is first looked at.
QueueStarts == { [level |-> 1, xp |-> 0], [level |-> 4, xp |-> 500] }

\* A factory as built, or upgraded to level 4 (base efficiency 1.0); its
\* workers have arrived.
InitQueue ==
  /\ \E k \in FactoryKinds, l \in {1, 4} :
       factory = [NewFactory(k) EXCEPT !.level = l,
                                       !.powerRequired = IF l = 1 THEN @ ELSE energyConsumption(k),
                                       !.workers = requiredWorkers(k)]
  /\ \E s \in QueueStarts : level = s.level /\ xp = s.xp
  /\ currentTick = 0
  /\ waste = WasteOfKind["factory"]
  /\ resources \in FactoryStocks
  /\ lastCall = NoCall
  /\ pollution = InitialPollution
  /\ wasteCall = [op |-> "none", clamped |-> FALSE]
  /\ energy = 0
  /\ money = 14000 * Cent
  /\ productionMode = "balanced"
  /\ fTrace = NoTrace
  /\ CityIdle /\ ScoreIdle /\ PollutionIdle /\ LoopIdle /\ SaveIdle

SpecQueue == InitQueue /\ [][NextFactory]_vars

\* Whether a job of progress p reaches its totalTime when advanced by adj.
jobDue(job, adj) == job.progress + adj >= job.totalTime * Scale

\* The amount under name in a list of <<name, amount>> entries.
RECURSIVE entryAmount(_, _, _)
entryAmount(entries, name, i) ==
  IF i > Len(entries) THEN 0
  ELSE (IF entries[i][1] = name THEN entries[i][2] ELSE 0) + entryAmount(entries, name, i + 1)

\* What the jobs of q from index i on that are due at adj credit under name:
\* their recipe outputs, or their recipe waste if asWaste.
RECURSIVE dueCredit(_, _, _, _, _, _)
dueCredit(kind, q, adj, name, asWaste, i) ==
  IF i > Len(q) THEN 0
  ELSE (IF jobDue(q[i], adj)
          THEN entryAmount(IF asWaste THEN recipeOf(kind, q[i].recipe).waste
                                      ELSE recipeOf(kind, q[i].recipe).outputs, name, 1)
          ELSE 0)
       + dueCredit(kind, q, adj, name, asWaste, i + 1)

\* The jobs of q that are not due at adj, advanced by adj, in order.
RECURSIVE notDue(_, _, _)
notDue(q, adj, i) ==
  IF i > Len(q) THEN <<>>
  ELSE (IF jobDue(q[i], adj) THEN <<>> ELSE << [q[i] EXCEPT !.progress = @ + adj] >>)
       \o notDue(q, adj, i + 1)

\* The number of jobs of q that are due at adj.
RECURSIVE countDue(_, _, _)
countDue(q, adj, i) ==
  IF i > Len(q) THEN 0
  ELSE (IF jobDue(q[i], adj) THEN 1 ELSE 0) + countDue(q, adj, i + 1)

\* The efficiency the progress loop of the tick just taken ran with.
appliedEfficiency(t) == IF t.powered THEN t.adjusted ELSE 0

\* Every queued job is still short of its totalTime and has progress >= 0.
QueuedJobsRunning ==
  \A i \in 1..Len(factory.productionQueue) :
    /\ factory.productionQueue[i].progress >= 0
    /\ factory.productionQueue[i].progress < factory.productionQueue[i].totalTime * Scale

\* A simulate call removes the jobs that reach totalTime in it and no others,
\* and credits each of them once: the products grow by their outputs and the
\* waste entries by their scaled waste, up to the cap.
CompletedOnce ==
  (fTrace'.op = "simulate" /\ fTrace'.ticks = fTrace.ticks + 1) =>
    /\ fTrace'.afterProgress = notDue(factory.productionQueue, appliedEfficiency(fTrace'), 1)
    /\ Len(fTrace'.completed) = countDue(factory.productionQueue, appliedEfficiency(fTrace'), 1)
    /\ \A p \in ProductTypes :
         resources'[p] = resources[p]
           + dueCredit(factory.kind, factory.productionQueue, appliedEfficiency(fTrace'), p, FALSE, 1)
    /\ policyActive(level) = policyActive(level') =>
         \A w \in WasteTypes :
           resources'[w] =
             Min(limitOf(w),
                 resources[w] + scaledWaste(dueCredit(factory.kind, factory.productionQueue,
                                                      appliedEfficiency(fTrace'), w, TRUE, 1),
                                            factory.level, level, productionMode))

\* C11: a queued job has progress >= 0 and is removed exactly once, in the
\* first tick in which its progress reaches totalTime; its outputs and waste
\* are credited to the ledger once, in that tick.
JobCompletesOnce == []QueuedJobsRunning /\ [][CompletedOnce]_vars

\* A duration-3 job that had run two ticks at efficiency 1.0 completed in its
\* third tick: it left the queue and its product is in the ledger.
ThirdTickWitness ==
  /\ fTrace.op = "simulate"
  /\ fTrace.adjusted = Scale /\ fTrace.powered
  /\ \E i \in 1..Len(fTrace.queueBefore) :
       /\ fTrace.queueBefore[i].totalTime = 3
       /\ fTrace.queueBefore[i].progress = 2 * Scale
  /\ Len(fTrace.completed) > 0
  /\ \A i \in 1..Len(fTrace.afterProgress) : fTrace.afterProgress[i].progress < 2 * Scale
  /\ resources["clothing"] > 0 \/ resources["steel-beam"] > 0

\* C12: a factory with requiredWorkers > 0 and zero current workers has
\* productionEfficiency exactly 0, whatever its power state and level.
NoWorkersNoEfficiency ==
  (requiredWorkers(factory.kind) > 0 /\ factory.workers = 0) =>
    productionEfficiency(factory, energy, level, productionMode) = 0

\* With the power requirement covered, a factory without workers has
\* productionEfficiency 0 at every level and in every production mode.
NoWorkersNoEfficiencyWhenPowered ==
  (factory.workers = 0 /\ isFullyPowered(factory.powerRequired, energy)) =>
    productionEfficiency(factory, energy, level, productionMode) = 0

\* The auto rate and the efficiency (percent) a center of level l must work with.
ExpectedAutoRate(l) == IF l = 1 THEN 2 ELSE IF l = 2 THEN 4 ELSE 6
ExpectedEfficiency(l) == IF l = 1 THEN 50 ELSE IF l = 2 THEN 70 ELSE 90

\* Whether the tick about to run reaches processAutoRecycling with power: a
\* recycling center stands on the grid and the pool still covers its
\* requirement after Building.simulate drew it.
autoRecyclingRuns ==
  /\ CountTiles(World, isRecyclingCenter) > 0
  /\ isFullyPowered(centerEnergyConsumption, buildingDrawPower(centerEnergyConsumption, energy))

\* What the tick takes from the building's local waste for recipe i.
localTaken(i) ==
  IF waste.wasteType = wasteRecipes[i][1] THEN Min(waste.amount, Scale) ELSE 0

\* A tick with a powered center: each recyclable waste type loses min(amount,
\* rate) and its recycled material gains what was consumed (from the ledger
\* and from the building's local waste) times the efficiency.
AutoRecyclingAmounts ==
  (sTrace'.op = "tick" /\ sTrace'.ticks = sTrace.ticks + 1 /\ autoRecyclingRuns) =>
    /\ ExpectedEfficiency(center.level) <= 100
    /\ waste'.amount = waste.amount
                         - (IF \E i \in 1..Len(wasteRecipes) : waste.wasteType = wasteRecipes[i][1]
                              THEN Min(waste.amount, Scale) ELSE 0)
    /\ \A i \in 1..Len(wasteRecipes) :
         /\ resources'[wasteRecipes[i][1]] =
              resources[wasteRecipes[i][1]]
                - Min(resources[wasteRecipes[i][1]], ExpectedAutoRate(center.level) * Scale)
         /\ resources'[wasteRecipes[i][2]] =
              resources[wasteRecipes[i][2]]
                + (Min(resources[wasteRecipes[i][1]], ExpectedAutoRate(center.level) * Scale)
                     \div 100) * ExpectedEfficiency(center.level)
                + (localTaken(i) \div 100) * ExpectedEfficiency(center.level)

MaxPollutionTick == 21
MaxPollutionCalls == 5

\* The amounts addWaste and removeWaste are called with (percent points).
PollutionAmounts == {100 * Scale}
RemovedAmounts == {30 * Scale}

InitPollution ==
  /\ LedgerIdle /\ GameIdle /\ WasteIdle /\ FactoryIdle /\ CityIdle /\ ScoreIdle
  /\ PollutionIdle /\ LoopIdle /\ SaveIdle

pollutionRest == <<ledgerVars, wasteVars, factoryVars, cityVars, scoreVars, loopVars, saveVars, level>>

\* The pool becomes pol through the call op.
PoolBecomes(pol, op) ==
  /\ pTrace.calls < MaxPollutionCalls
  /\ pollution' = pol
  /\ pTrace' = [pTrace EXCEPT !.op = op, !.fired = FALSE, !.calls = @ + 1,
                              !.below = @ \/ totalPollution(pol) < 100 * Scale]
  /\ UNCHANGED <<pollutionRest, currentTick, penalties>>

\* addWaste(wasteType, amount)
PollutionAddWaste ==
  \E t \in PollutionTypes, a \in PollutionAmounts :
    PoolBecomes(pollutionAddWaste(pollution, t, a), "addWaste")

\* removeWaste(wasteType, amount)
PollutionRemoveWaste ==
  \E t \in PollutionTypes, a \in RemovedAmounts :
    /\ pollution[t] > 0
    /\ PoolBecomes(pollutionRemoveWaste(pollution, t, a), "removeWaste")

\* decay()
PollutionDecay ==
  /\ totalPollution(pollution) > 0
  /\ PoolBecomes(pollutionDecay(pollution), "decay")

\* applyPenalties(currentTick)
PollutionApplyPenalties ==
  /\ pTrace.op # "applyPenalties" \/ ~ pTrace.fired \/ pTrace.events < 2
  /\ penalties' = applyPenalties(penalties, pollution, currentTick)
  /\ pTrace' =
       IF triggersPollutionEvent(penalties, pollution, currentTick)
         THEN [pTrace EXCEPT !.op = "applyPenalties", !.fired = TRUE, !.events = @ + 1,
                             !.below = FALSE,
                             !.refired = pTrace.events > 0 /\ ~ pTrace.below]
         ELSE [pTrace EXCEPT !.op = "applyPenalties", !.fired = FALSE]
  /\ UNCHANGED <<pollutionRest, currentTick, pollution>>

\* Game.currentTick advances.
PollutionNextTick ==
  /\ currentTick < MaxPollutionTick
  /\ currentTick' = currentTick + 1
  /\ pTrace' = [pTrace EXCEPT !.op = "tick", !.fired = FALSE]
  /\ UNCHANGED <<pollutionRest, pollution, penalties>>

NextPollution ==
  \/ PollutionAddWaste \/ PollutionRemoveWaste \/ PollutionDecay
  \/ PollutionApplyPenalties \/ PollutionNextTick

SpecPollution == InitPollution /\ [][NextPollution]_vars

\* C14: once the crisis event has fired, it fires again only after the
\* pollution mean has been below 100 in between.
CrisisFiresOnce == ~ pTrace.refired

\* The part of C14 that holds: a second applyPenalties in the tick of the
\* event does not fire it again.
NoRefireInSameTick ==
  [][(pTrace.op = "applyPenalties" /\ pTrace.fired /\ currentTick' = currentTick
        /\ pTrace'.op = "applyPenalties") => ~ pTrace'.fired]_vars

(***************************************************************************)
(* Game.simulate, statement by statement (game.js)                         *)
(***************************************************************************)

MaxLoopTicks == 3
MaxToggles == 1

\* Game.simulate with the auto-sell pass moved before city.simulate.
nextStepSellFirst(step) ==
  CASE step = "market"    -> "decay"
    [] step = "decay"     -> "penalties"
    [] step = "penalties" -> "autoSell"
    [] step = "autoSell"  -> "city"
    [] step = "city"      -> "autoBuy"
    [] step = "autoBuy"   -> "score"
    [] OTHER              -> "idle"

\* The statement of Game.simulate that follows the statement step.
nextStep(step) ==
  CASE step = "market"    -> "decay"
    [] step = "decay"     -> "penalties"
    [] step = "penalties" -> "city"
    [] step = "city"      -> "autoSell"
    [] step = "autoSell"  -> "autoBuy"
    [] step = "autoBuy"   -> "score"
    [] OTHER              -> "idle"

\* Control moves past the statement step, which ran its call or skipped it.
advance(lt, step, ran) ==
  [lt EXCEPT !.pc = nextStep(step),
             !.steps = IF ran THEN Append(@, step) ELSE @,
             !.ticks = IF nextStep(step) = "idle" THEN @ + 1 ELSE @]

\* Ledgers the tick loop is followed from: the new game's, and one with
\* products to sell and raw glass under the auto-buy target.
LoopStocks ==
  { InitialResources,
    [InitialResources EXCEPT !["clothing"] = 3 * Scale, !["laptop"] = Scale,
                             !["raw-glass"] = (98 * Scale) \div 10,
                             !["e-waste"] = 10 * Scale] }

\* Pollution pools the loop is followed from.
LoopPools == { InitialPollution, [t \in PollutionTypes |-> 60 * Scale],
               [t \in PollutionTypes |-> 100 * Scale] }

\* currentTick with the ticks of the last penalty check and price update.
LoopClocks ==
  { [tick |-> 0, penalty |-> 0, price |-> 0], [tick |-> 8, penalty |-> 0, price |-> 0],
    [tick |-> 18, penalty |-> 10, price |-> 0] }

\* The policies chosen in the policy panel (open from level 4 on).
LoopPolicies ==
  { [mode |-> "balanced", sales |-> "auto", tax |-> "medium"],
    [mode |-> "economy", sales |-> "smart", tax |-> "high"],
    [mode |-> "environment", sales |-> "store", tax |-> "low"] }

InitLoop ==
  /\ resources \in LoopStocks
  /\ lastCall = NoCall
  /\ \E s \in ScoreStarts \cup {[level |-> 1, xp |-> 0]} : level = s.level /\ xp = s.xp
  /\ tiles \in ScoreCities
  /\ level >= 3 \/ tiles[1] = 0
  /\ buildings = ScoreBuildings
  /\ citizens = <<>>
  /\ workforceDistribution = DefaultWorkforce
  /\ jTrace = NoCityTrace
  /\ center = NewCenter
  /\ waste = [WasteOfKind["factory"] EXCEPT !.amount = 30 * Scale]
  /\ wasteCall = [op |-> "none", clamped |-> FALSE]
  /\ pollution \in LoopPools
  /\ \E c \in LoopClocks :
       /\ currentTick = c.tick
       /\ penalties = [NewPenalties EXCEPT !.lastPenaltyTick = c.penalty]
       /\ market = [NewMarket(level) EXCEPT !.lastPriceUpdate = c.price]
  /\ factory = NewFactory("textile")
  /\ energy \in {0, 20}
  /\ money \in {0, 5000 * Cent}
  /\ \E p \in LoopPolicies :
       /\ policyActive(level) \/ p.mode = "balanced"
       /\ productionMode = p.mode /\ salesPolicy = p.sales /\ taxPolicy = p.tax
  /\ fTrace = NoTrace
  /\ circularScore = 0
  /\ sTrace = NoScoreTrace
  /\ pTrace = NoPollutionTrace
  /\ lTrace = NoLoopTrace
  /\ SaveIdle

\* What no statement of Game.simulate changes here.
loopFixed ==
  <<cityVars, lastCall, wasteCall, factory, productionMode, fTrace, center, sTrace, pTrace,
    salesPolicy, taxPolicy, saveVars>>

\* The player pauses or resumes the game between two ticks.
TogglePause ==
  /\ lTrace.pc = "idle" /\ lTrace.toggles < MaxToggles
  /\ lTrace' = [lTrace EXCEPT !.isPaused = ~ @, !.toggles = @ + 1]
  /\ UNCHANGED <<loopFixed, resources, level, currentTick, pollution, waste, energy, xp, money,
                 circularScore, penalties, market>>

\* simulate() is entered: it returns at once while paused, else the tick
\* counter is incremented.
LoopBegin ==
  /\ lTrace.pc = "idle" /\ ~ lTrace.isPaused /\ lTrace.ticks < MaxLoopTicks
  /\ currentTick' = currentTick + 1
  /\ lTrace' = [lTrace EXCEPT !.pc = "market", !.steps = <<>>]
  /\ UNCHANGED <<loopFixed, resources, level, pollution, waste, energy, xp, money,
                 circularScore, penalties, market>>

\* market.updatePrices(currentTick)
StepMarket ==
  /\ lTrace.pc = "market"
  /\ \E fp \in Fluctuations, fr \in Fluctuations :
       /\ pricesDue(market, currentTick) \/ (fp = 100 /\ fr = 100)
       /\ market' = updatePrices(market, currentTick, fp, fr)
  /\ lTrace' = advance(lTrace, "market", TRUE)
  /\ UNCHANGED <<loopFixed, resources, level, currentTick, pollution, waste, energy, xp, money,
                 circularScore, penalties>>

\* globalPollution.decay()
StepDecay ==
  /\ lTrace.pc = "decay"
  /\ pollution' = pollutionDecay(pollution)
  /\ lTrace' = advance(lTrace, "decay", TRUE)
  /\ UNCHANGED <<loopFixed, resources, level, currentTick, waste, energy, xp, money,
                 circularScore, penalties, market>>

\* globalPollution.applyPenalties(currentTick)
StepPenalties ==
  /\ lTrace.pc = "penalties"
  /\ penalties' = applyPenalties(penalties, pollution, currentTick)
  /\ lTrace' = advance(lTrace, "penalties", TRUE)
  /\ UNCHANGED <<loopFixed, resources, level, currentTick, pollution, waste, energy, xp, money,
                 circularScore, market>>

\* The production mode's effect on the score, then city.simulate(1,
\* currentTick); a level-up inside it initializes the market.
StepCity ==
  /\ lTrace.pc = "city"
  /\ \E pairs \in {0, 1} :
       /\ pairs = 0 \/ (isUnlocked("eco-shop", level) /\ CountTiles(World, isEcoShop) > 0)
       /\ GameBecomes(scoreTickCity(Game, World, center, productionMode, pairs))
  /\ market' = IF level' # level THEN marketInitialize(market, level') ELSE market
  /\ lTrace' = advance(lTrace, "city", TRUE)
  /\ UNCHANGED <<loopFixed, currentTick, money, penalties>>

\* if (market.autoSellEnabled) market.autoSellProducts(...)
StepAutoSell ==
  /\ lTrace.pc = "autoSell"
  /\ LET out == autoSellProducts(market, resources, money, level, taxPolicy, salesPolicy,
                                 energy, circularScore,
                                 CountTiles(World, isCommercial) > 0)
     IN /\ resources' = IF market.autoSellEnabled THEN out.resources ELSE resources
        /\ money' = IF market.autoSellEnabled THEN out.money ELSE money
  /\ lTrace' = advance(lTrace, "autoSell", market.autoSellEnabled)
  /\ UNCHANGED <<loopFixed, level, currentTick, pollution, waste, energy, xp,
                 circularScore, penalties, market>>

\* Whether Game.simulate calls autoBuyMaterials.
autoBuyOpen(lvl) == lvl >= 2 /\ isUnlocked("auto-buy", lvl)

\* if (level >= 2 && isUnlocked('auto-buy', level)) market.autoBuyMaterials(...)
StepAutoBuy ==
  /\ lTrace.pc = "autoBuy"
  /\ LET out == autoBuyMaterials(market, resources, money)
     IN /\ resources' = IF autoBuyOpen(level) THEN out.resources ELSE resources
        /\ money' = IF autoBuyOpen(level) THEN out.money ELSE money
  /\ lTrace' = advance(lTrace, "autoBuy", autoBuyOpen(level))
  /\ UNCHANGED <<loopFixed, level, currentTick, pollution, waste, energy, xp,
                 circularScore, penalties, market>>

\* if (level >= 3) gameState.calculateCircularScore(); simulate() returns.
StepScore ==
  /\ lTrace.pc = "score"
  /\ circularScore' = scoreTickEnd(Game, World).circularScore
  /\ lTrace' = advance(lTrace, "score", level >= 3)
  /\ UNCHANGED <<loopFixed, resources, level, currentTick, pollution, waste, energy, xp, money,
                 penalties, market>>

NextLoop ==
  \/ TogglePause \/ LoopBegin \/ StepMarket \/ StepDecay \/ StepPenalties
  \/ StepCity \/ StepAutoSell \/ StepAutoBuy \/ StepScore

SpecLoop == InitLoop /\ [][NextLoop]_vars

\* The place of each subsystem step in a tick.
stepRank(s) ==
  CASE s = "market" -> 1 [] s = "decay" -> 2 [] s = "penalties" -> 3 [] s = "city" -> 4
    [] s = "autoSell" -> 5 [] s = "autoBuy" -> 6 [] OTHER -> 7

\* The steps that run in every executed tick.
EveryTickSteps == {"market", "decay", "penalties", "city", "autoSell"}

\* C15: the steps of a tick run in the order market prices, pollution decay,
\* penalty evaluation, building pass, auto-sell, auto-buy, score: no step runs
\* before an earlier one of its tick, and a finished tick ran the five
\* unconditional steps.
TickStepsInOrder ==
  /\ \A i, j \in 1..Len(lTrace.steps) :
       i < j => stepRank(lTrace.steps[i]) < stepRank(lTrace.steps[j])
  /\ (lTrace.pc = "idle" /\ lTrace.ticks > 0)
       => \A s \in EveryTickSteps : InSeq(lTrace.steps, s)

\* A finished tick in which all seven steps ran, the penalties were evaluated
\* and the prices were updated.
FullTickWitness ==
  /\ lTrace.pc = "idle"
  /\ lTrace.steps = <<"market", "decay", "penalties", "city", "autoSell", "autoBuy", "score">>
  /\ penalties.lastPenaltyTick = currentTick
  /\ market.lastPriceUpdate = currentTick
  /\ market.productLevel = 110

(***************************************************************************)
(* Employed citizens keep their workplace                                  *)
(***************************************************************************)

\* C16: an employed citizen's workplace stays the same building for as long
\* as that building is on the grid and lists the citizen; it is never replaced
\* by another building, whatever opens or whatever the workforce policy becomes.
KeepsWorkplace ==
  \A c \in DOMAIN citizens :
    (citizens[c].state = "employed" /\ citizens[c].workplace # 0)
      => /\ citizens'[c].workplace \in {citizens[c].workplace, 0}
         /\ (/\ \E t \in Tiles : tiles'[t] = citizens[c].workplace
             /\ InSeq(buildings'[citizens[c].workplace].workers, c))
              => (citizens'[c].workplace = citizens[c].workplace
                    /\ citizens'[c].state = "employed")

NoJobHopping == [][KeepsWorkplace]_vars

\* After a tick, a citizen of the first home still works in the shop two tiles
\* away although a factory placed next door has openings.
StaysDespiteFactoryWitness ==
  /\ jTrace.op = "tick" /\ jTrace.edits = 1
  /\ tiles[3] # 0 /\ buildings[tiles[3]].kind = "textile-factory"
  /\ availableJobs(buildings[tiles[3]]) > 0
  /\ \E c \in 1..12 :
       /\ citizens[c].state = "employed"
       /\ citizens[c].workplace = 3 /\ tiles[2] = 3
       /\ citizens[c].stateCounter > 0

(***************************************************************************)
(* Upgrades, saving and loading                                            *)
(***************************************************************************)

\* The upgrade, income, save and load calls followed.
MaxUpgradeCalls == 7

\* The money the player starts the scenario with, in coins.
UpgradeFunds == {0, 5000, 14000, 40000}

InitUpgrade ==
  /\ \E k \in FactoryKinds : factory = NewFactory(k)
  /\ energy = 0 /\ xp = 0
  /\ money \in {c * Cent : c \in UpgradeFunds}
  /\ productionMode = "balanced"
  /\ fTrace = NoTrace
  /\ LedgerIdle /\ GameIdle /\ WasteIdle /\ CityIdle /\ ScoreIdle
  /\ PollutionIdle /\ LoopIdle /\ SaveIdle

\* The state an upgrade, save or load call finds.
Before ==
  [factory |-> factory, center |-> center, money |-> money, resources |-> resources,
   saveData |-> saveData]

Called(op, ok) ==
  /\ uTrace.calls < MaxUpgradeCalls
  /\ uTrace' = [op |-> op, ok |-> ok, calls |-> uTrace.calls + 1, before |-> Before]

\* The player upgrades the factory: Factory.upgrade().
UpgradeFactory ==
  /\ LET out == upgrade(factory, money)
     IN /\ factory' = out.factory
        /\ money' = out.money
        /\ Called("upgradeFactory", out.ok)
  /\ UNCHANGED <<pollutionVars, loopVars, ledgerVars, gameVars, wasteVars, scoreVars, cityVars,
                 energy, xp, productionMode, fTrace, saveData>>

\* The player upgrades the recycling center: RecyclingCenter.upgrade().
UpgradeCenter ==
  /\ LET out == centerUpgrade(center, money)
     IN /\ center' = out.center
        /\ money' = out.money
        /\ Called("upgradeCenter", out.ok)
  /\ UNCHANGED <<pollutionVars, loopVars, ledgerVars, gameVars, wasteVars, cityVars,
                 factory, energy, xp, productionMode, fTrace, circularScore, sTrace, saveData>>

\* Income: gameState.addMoney(amount).
EarnMoney ==
  /\ money' = addMoney(money, 8000 * Cent, level, taxPolicy)
  /\ Called("addMoney", TRUE)
  /\ UNCHANGED <<pollutionVars, loopVars, ledgerVars, gameVars, wasteVars, scoreVars, cityVars,
                 factory, energy, xp, productionMode, fTrace, saveData>>

\* saveGame()
SaveGame ==
  /\ saveData' = saveGame(money, energy, level, xp, circularScore, resources, productionMode,
                          salesPolicy, taxPolicy, workforceDistribution, factory, center)
  /\ Called("save", TRUE)
  /\ UNCHANGED <<pollutionVars, loopVars, ledgerVars, gameVars, wasteVars, scoreVars, cityVars,
                 factoryVars>>

\* The page is loaded with a save present: Game.start runs loadGame(), builds
\* a new city and reconstructCity() puts the saved buildings on it.
LoadGame ==
  /\ saveData.present
  /\ money' = orDefault(saveData.money, 500000 * Cent)
  /\ energy' = orDefault(saveData.energy, 0)
  /\ level' = orDefault(saveData.level, 1)
  /\ xp' = orDefault(saveData.xp, 0)
  /\ circularScore' = orDefault(saveData.circularScore, 0)
  /\ resources' = saveData.resources
  /\ productionMode' = saveData.productionMode
  /\ salesPolicy' = saveData.salesPolicy
  /\ taxPolicy' = saveData.taxPolicy
  /\ workforceDistribution' = saveData.workforceDistribution
  /\ market' = NewMarket(orDefault(saveData.level, 1))
  /\ factory' = reconstructFactory(saveData)
  /\ center' = reconstructCenter(saveData)
  /\ waste' = wasteReset(waste)
  /\ currentTick' = 0
  /\ pollution' = InitialPollution
  /\ penalties' = NewPenalties
  /\ lTrace' = NoLoopTrace
  /\ Called("load", TRUE)
  /\ UNCHANGED <<tiles, buildings, citizens, jTrace, lastCall, wasteCall, fTrace, sTrace,
                 pTrace, saveData>>

NextUpgrade == UpgradeFactory \/ UpgradeCenter \/ EarnMoney \/ SaveGame \/ LoadGame

SpecUpgrade == InitUpgrade /\ [][NextUpgrade]_vars

\* The upgrade costs in coins, by kind and current level.
ExpectedFactoryCost(kind, l) ==
  (IF kind = "steel" THEN 2 ELSE 1)
    * (CASE l = 1 -> 6000 [] l = 2 -> 7200 [] l = 3 -> 8640 [] OTHER -> 10368)

ExpectedCenterCost(l) == IF l = 1 THEN 15600 ELSE 20280

LevelsWithinBounds ==
  /\ 1 <= factory.level /\ factory.level <= 5
  /\ 1 <= center.level /\ center.level <= 3

\* The step is a paid upgrade of the factory, or leaves its level alone.
FactoryLevelByUpgrade ==
  factory'.level # factory.level
    => /\ factory'.level = factory.level + 1
       /\ uTrace'.op = "upgradeFactory" /\ uTrace'.ok
       /\ money' = money - ExpectedFactoryCost(factory.kind, factory.level) * 100

CenterLevelByUpgrade ==
  center'.level # center.level
    => /\ center'.level = center.level + 1
       /\ uTrace'.op = "upgradeCenter" /\ uTrace'.ok
       /\ money' = money - ExpectedCenterCost(center.level) * 100

\* The step is a load that sets both levels to the saved ones.
LevelsFromSave ==
  /\ uTrace'.op = "load" /\ saveData.present
  /\ factory'.level = saveData.factoryLevel
  /\ center'.level = saveData.centerLevel

\* C17 as stated: 1 <= level <= maxLevel for the factory and the recycling
\* center, and a level changes only by +1 inside an upgrade() call that
\* deducted the upgrade cost.
LevelOnlyByPaidUpgrade ==
  []LevelsWithinBounds /\ [][FactoryLevelByUpgrade /\ CenterLevelByUpgrade]_vars

\* C17 amended: the levels stay within 1..maxLevel, and a level changes only
\* by +1 inside a paid upgrade() or when a load sets it to the saved level.
LevelByPaidUpgradeOrLoad ==
  []LevelsWithinBounds
    /\ [][(FactoryLevelByUpgrade /\ CenterLevelByUpgrade) \/ LevelsFromSave]_vars

\* The factory reached its highest level by four paid upgrades, then a load
\* took it back to the saved level.
UpgradedAndLoadedWitness ==
  /\ uTrace.op = "load"
  /\ uTrace.before.factory.level = 5
  /\ factory.level = 2
  /\ factory.level = saveData.factoryLevel

\* C18: an upgrade attempted with less money than it costs returns false and
\* changes neither the level, the power requirement, the money nor the ledger.
UnpaidUpgrade ==
  /\ (/\ uTrace'.op = "upgradeFactory"
      /\ money < ExpectedFactoryCost(factory.kind, factory.level) * 100)
       => (~ uTrace'.ok /\ factory' = factory /\ money' = money /\ resources' = resources
             /\ center' = center)
  /\ (/\ uTrace'.op = "upgradeCenter"
      /\ money < ExpectedCenterCost(center.level) * 100)
       => (~ uTrace'.ok /\ center' = center /\ money' = money /\ resources' = resources
             /\ factory' = factory)

UnpaidUpgradeIsNoOp == [][UnpaidUpgrade]_vars

\* A refused upgrade of a factory below its highest level: the player had
\* money, but less than the cost.
RefusedUpgradeWitness ==
  /\ uTrace.op = "upgradeFactory" /\ ~ uTrace.ok
  /\ factory.level = 2 /\ factory.level < maxLevel
  /\ money > 0 /\ money < ExpectedFactoryCost(factory.kind, 2) * 100
  /\ factory = uTrace.before.factory /\ money = uTrace.before.money

(***************************************************************************)
(* Destroying a building with a jobs module                                *)
(***************************************************************************)

\* A developed residential zone of thirteen residents on the first tile, a
\* commercial zone under construction on the second, a textile factory on the
\* third and an empty fourth tile: nobody has found a job yet.
InitDispose ==
  /\ tiles = <<1, 2, 3, 0>>
  /\ buildings =
       << [NewBuilding("residential") EXCEPT !.devState = "developed",
                                            !.residents = <<1, 2, 3, 4, 5, 6, 7, 8, 9, 10, 11, 12, 13>>],
          [NewBuilding("commercial") EXCEPT !.devState = "under-construction"],
          NewBuilding("textile-factory") >>
  /\ citizens = [c \in 1..13 |-> NewCitizen(1, IF c = 13 THEN "retired" ELSE "unemployed")]
  /\ workforceDistribution = DefaultWorkforce
  /\ level \in {1, 4}
  /\ jTrace = NoCityTrace
  /\ currentTick = 0
  /\ pollution = InitialPollution
  /\ LedgerIdle /\ WasteIdle /\ FactoryIdle /\ ScoreIdle /\ PollutionIdle /\ LoopIdle /\ SaveIdle

SpecDispose == InitDispose /\ [][NextCity]_vars

\* The building on tile t has a jobs module and the step takes it off the grid.
Destroyed(t) ==
  /\ tiles[t] # 0 /\ hasJobs(buildings[tiles[t]])
  /\ jTrace'.op = "bulldoze" /\ tiles'[t] = 0

\* C19: when a building with a jobs module is destroyed, every citizen of its
\* worker list ends with no workplace and in state 'unemployed', and its
\* worker list is empty.
DisposeReleasesWorkers ==
  \A t \in Tiles :
    Destroyed(t) =>
      /\ buildings'[tiles[t]].workers = <<>>
      /\ \A i \in 1..Len(buildings[tiles[t]].workers) :
           LET c == buildings[tiles[t]].workers[i]
           IN citizens'[c].workplace = 0 /\ citizens'[c].state = "unemployed"

DisposeLaysOff == [][DisposeReleasesWorkers]_vars

\* The factory on the third tile was bulldozed with workers in it: they are
\* unemployed now and the factory object, off the grid, lists nobody.
BulldozedFactoryWitness ==
  /\ jTrace.op = "bulldoze" /\ jTrace.released >= 2
  /\ tiles[3] = 0 /\ tiles[2] = 2
  /\ buildings[3].workers = <<>>
  /\ \A c \in 1..2 : citizens[c].state = "unemployed" /\ citizens[c].workplace = 0
                        /\ citizens[c].stateCounter = 0




(***************************************************************************)
(* The efficiency of a factory by level, staffing, mode and waste          *)
(***************************************************************************)

\* Factory levels looked at: base efficiency 0.7, 0.9 and 1.0.
EfficiencyLevels == {1, 3, 5}

\* Worker counts for a factory that requires n.
Staffings(n) == {0, n \div 2, n}

\* A factory of some level, as built or upgraded, with 20 in the energy pool.
InitEfficiency ==
  /\ \E k \in FactoryKinds, l \in EfficiencyLevels :
       factory = [NewFactory(k) EXCEPT !.level = l,
                                       !.powerRequired = IF l = 1 THEN @ ELSE energyConsumption(k),
                                       !.workers = requiredWorkers(k)]
  /\ \E s \in FactoryStarts :
       /\ level = s.level /\ xp = s.xp /\ currentTick = s.tick
       /\ waste = [WasteOfKind["factory"] EXCEPT !.amount = s.waste * Scale,
                                                 !.lastProductionTick = s.tick]
  /\ resources = [InitialResources EXCEPT !["raw-fabric"] = 7 * Scale, !["raw-plastic"] = Scale,
                                          !["raw-metal"] = 8 * Scale]
  /\ lastCall = NoCall
  /\ pollution = InitialPollution
  /\ wasteCall = [op |-> "none", clamped |-> FALSE]
  /\ energy = 20
  /\ money = 0
  /\ productionMode = "balanced"
  /\ fTrace = NoTrace
  /\ CityIdle /\ ScoreIdle /\ PollutionIdle /\ LoopIdle /\ SaveIdle

\* Citizens take jobs at the factory or leave it, one group at a time.
StaffChange ==
  /\ \E n \in Staffings(requiredWorkers(factory.kind)) :
       /\ n # factory.workers
       /\ factory' = [factory EXCEPT !.workers = n]
  /\ UNCHANGED <<factoryRest, ledgerVars, gameVars, wasteVars, energy, xp, money, productionMode, fTrace>>

NextEfficiency == FactorySimulate \/ StaffChange \/ SetProductionMode

SpecEfficiency == InitEfficiency /\ [][NextEfficiency]_vars

\* The production mode's speed multiplier, in percent.
ExpectedSpeed(mode) ==
  CASE mode = "economy" -> 120 [] mode = "environment" -> 85 [] OTHER -> 100

\* min(1, 0.7 + 0.1 * (level - 1)) * min(1, workers / required), in Scale units.
StaffedBase(f) ==
  (Min(Scale, 700000 + 100000 * (f.level - 1)) * Min(requiredWorkers(f.kind), f.workers))
    \div requiredWorkers(f.kind)

\* The step is a tick of the factory with its power covered.
PoweredTick ==
  fTrace'.op = "simulate" /\ fTrace'.ticks = fTrace.ticks + 1 /\ fTrace'.powered

\* The queue before the step with every job advanced by adj, without the
\* jobs that reach their totalTime.
AdvancedBy(adj) ==
  IF adj > 0 THEN notDue(factory.productionQueue, adj, 1) ELSE factory.productionQueue

\* C25 as stated: for a fully powered factory the progress added to each
\* queued job in a tick is min(1, 0.7 + 0.1*(level-1)) * min(1, workers /
\* required) * speed * wastePenalty, with speed 1.2, 1.0 or 0.85.
ProgressIsProduct ==
  [][PoweredTick =>
       LET adj == (((StaffedBase(factory) * ExpectedSpeed(productionMode)) \div 100)
                     * fTrace'.penalty) \div 10
       IN fTrace'.adjusted = adj /\ fTrace'.afterProgress = AdvancedBy(adj)]_vars

\* C25 amended: the product of the level term, the worker ratio and the speed
\* multiplier is capped at 1 before the waste penalty is applied.
ProgressIsCappedProduct ==
  [][PoweredTick =>
       LET adj == (Min(Scale, (StaffedBase(factory) * ExpectedSpeed(productionMode)) \div 100)
                     * fTrace'.penalty) \div 10
       IN fTrace'.adjusted = adj /\ fTrace'.afterProgress = AdvancedBy(adj)]_vars

\* A fully staffed, powered factory of level 3 ran a tick in economy mode with
\* a job queued and its waste at 80 or more: 0.9 * 1.2 was capped at 1.0 and
\* the job advanced by 1.0 * 0.8.
CappedEconomyWitness ==
  /\ fTrace.op = "simulate" /\ fTrace.powered
  /\ productionMode = "economy"
  /\ factory.level = 3 /\ factory.workers = requiredWorkers(factory.kind)
  /\ fTrace.original = Scale
  /\ fTrace.penalty = 8 /\ fTrace.adjusted = 800000
  /\ \E i \in 1..Len(fTrace.queueBefore) : \E j \in 1..Len(fTrace.afterProgress) :
       fTrace.afterProgress[j].progress = fTrace.queueBefore[i].progress + 800000

\* The step is a tick in which Building.simulate deducted the factory's
\* power requirement from the pool.
PaidTick ==
  /\ fTrace'.op = "simulate" /\ fTrace'.ticks = fTrace.ticks + 1
  /\ factory.powerRequired > 0
  /\ energy >= factory.powerRequired
  /\ energy' = energy - factory.powerRequired

\* C35: a factory whose power requirement was deducted from the pool in its
\* simulate step is fully powered for the rest of that step: its queue is
\* advanced and refilled as for a powered factory, also when the pool held
\* exactly the requirement.
PaidMeansPowered ==
  [][PaidTick => fTrace'.powered]_vars

\* The step is a tick of the factory in which its power is not covered.
UnpoweredTick ==
  fTrace'.op = "simulate" /\ fTrace'.ticks = fTrace.ticks + 1 /\ ~ fTrace'.powered

\* C26: in a tick in which the factory is not fully powered its queued jobs
\* still advance, by 0.5 times the speed multiplier and the waste penalty.
UnpoweredHalfSpeed ==
  [][UnpoweredTick =>
       LET adj == (((((Scale \div 2) * ExpectedSpeed(productionMode)) \div 100)
                      * fTrace'.penalty) \div 10)
       IN factory'.productionQueue = AdvancedBy(adj)]_vars

\* The step is the bulldoze tool used on a tile without a building.
BulldozedEmptyTile ==
  /\ jTrace'.op = "bulldoze" /\ jTrace'.edits = jTrace.edits + 1
  /\ tiles' = tiles

\* C24: bulldozing a tile that holds no building is a no-op: no citizen's
\* state or workplace, no worker list, no resource amount, neither money nor
\* energy changes.
BulldozeEmptyIsNoOp ==
  [][BulldozedEmptyTile
       => /\ citizens' = citizens
          /\ buildings' = buildings
          /\ resources' = resources
          /\ money' = money /\ energy' = energy]_vars

\* The empty fourth tile was bulldozed while the factory had workers: they
\* are still employed there.
EmptyTileBulldozedWitness ==
  /\ jTrace.op = "bulldoze" /\ jTrace.released = 0
  /\ tiles = <<1, 2, 3, 0>>
  /\ Len(buildings[3].workers) >= 2
  /\ \A i \in 1..Len(buildings[3].workers) :
       LET c == buildings[3].workers[i]
       IN citizens[c].state = "employed" /\ citizens[c].workplace = 3

\* C22: save followed by load is the identity on the persisted scalars: after
\* loadGame, money, energy, level, xp, circularScore, every ledger amount and
\* every policy field equal the values saveGame wrote, 0 included.
LoadRestoresSaved ==
  uTrace.op = "load"
    => /\ money = saveData.money
       /\ energy = saveData.energy
       /\ level = saveData.level
       /\ xp = saveData.xp
       /\ circularScore = saveData.circularScore
       /\ resources = saveData.resources
       /\ productionMode = saveData.productionMode
       /\ salesPolicy = saveData.salesPolicy
       /\ taxPolicy = saveData.taxPolicy
       /\ workforceDistribution = saveData.workforceDistribution

(***************************************************************************)
(* C20: unknown resource names                                             *)
(***************************************************************************)

\* A completed addResource or removeResource call whose name is not a key of
\* the ledger: the call has returned to its caller with the value in
\* lastCall.ok.
ReturnedFromUnknownName ==
  /\ lastCall.op \in {"addResource", "removeResource"}
  /\ lastCall.name \notin DOMAIN lastCall.before

\* C20: addResource and removeResource with a name outside the ledger's known
\* set fail fast, so no such call ever returns normally to its caller with a
\* plain false and an untouched ledger.
UnknownNameFailsFast ==
  ~ (ReturnedFromUnknownName /\ lastCall.ok = FALSE /\ resources = lastCall.before)

(***************************************************************************)
(* A saved city is put back on a new grid                                  *)
(***************************************************************************)

\* Building records a save holds at most.
MaxSavedBuildings == 3

\* The record saveGame writes for the building on tile t: a zone with its
\* development state, a factory, or a record whose type string no case of
\* createBuilding matches (a save of another version of the type table).
SavedRecords(t) ==
  { [tile |-> t, type |-> k, developmentState |-> s, developmentLevel |-> 1] :
      k \in {"residential", "commercial"}, s \in {"undeveloped", "developed"} }
    \cup { [tile |-> t, type |-> k, developmentState |-> "none", developmentLevel |-> 0] :
             k \in {"textile-factory", "warp-gate"} }

\* The building lists of a save with at most n records: one record per tile,
\* in grid order.
RECURSIVE SavedCitiesOf(_)
SavedCitiesOf(n) ==
  IF n = 0 THEN { <<>> }
  ELSE LET shorter == SavedCitiesOf(n - 1)
       IN shorter \cup { Append(recs, r) : recs \in {c \in shorter : Len(c) = n - 1},
                                          r \in SavedRecords(n) }

SavedCities == SavedCitiesOf(MaxSavedBuildings)

InitReconstruct ==
  /\ \E recs \in SavedCities : saveData = [present |-> TRUE, buildings |-> recs]
  /\ uTrace = NoUpgradeTrace
  /\ LedgerIdle /\ GameIdle /\ WasteIdle /\ FactoryIdle /\ CityIdle /\ ScoreIdle
  /\ PollutionIdle /\ LoopIdle

\* Game.start with a save present: reconstructCity on the new, empty city.
ReconstructCity ==
  /\ uTrace.op = "none"
  /\ LET out == reconstructCity(saveData, World)
     IN /\ CityBecomes(out.world)
        /\ uTrace' = [op |-> "reconstructCity", ok |-> out.ok, calls |-> 1]
  /\ UNCHANGED <<pollutionVars, loopVars, ledgerVars, gameVars, wasteVars, factoryVars,
                 scoreVars, workforceDistribution, jTrace, saveData>>

NextReconstruct == ReconstructCity

SpecReconstruct == InitReconstruct /\ [][NextReconstruct]_vars

\* The save holds a record of a kind createBuilding does not know.
UnknownKindSaved ==
  \E i \in 1..Len(saveData.buildings) : saveData.buildings[i].type \notin BuildingTypes

\* C21: a building of an unknown kind met while a saved city is reconstructed
\* is a hard failure surfaced to the caller: reconstructCity does not return
\* success after skipping the record and building the remaining ones.
UnknownKindIsHardFailure ==
  uTrace.op = "reconstructCity" /\ UnknownKindSaved => ~ uTrace.ok


(***************************************************************************)
(* The energy pool under the buildings of a city                           *)
(***************************************************************************)

\* Ticks the energy pool is followed for.
MaxPowerTicks == 3

\* power.required as each constructor leaves it; a hydro plant needs none.
powerRequiredOf(kind) ==
  CASE kind = "commercial"       -> 3
    [] kind = "textile-factory"  -> 5
    [] kind = "recycling-center" -> centerEnergyConsumption
    [] OTHER                     -> 0

\* City.simulate as far as the pool goes, from tile t on: each building's
\* Building.simulate draws its power if the pool covers it at that moment,
\* then a hydro plant (level 1) with road access adds 15.  pools and drew
\* record, per tile, the pool the building found and whether it consumed.
RECURSIVE cityPower(_, _, _, _)
cityPower(w, t, road, acc) ==
  IF t > Len(TilePos) THEN acc
  ELSE LET bid == w.tiles[t]
           kind == IF bid = 0 THEN "none" ELSE w.buildings[bid].kind
           required == powerRequiredOf(kind)
           drawn == buildingDrawPower(required, acc.energy)
           after == IF kind = "hydro-plant" /\ road THEN drawn + 15 ELSE drawn
       IN cityPower(w, t + 1, road,
                    [energy |-> after,
                     pools |-> Append(acc.pools, acc.energy),
                     drew |-> Append(acc.drew, drawn # acc.energy)])

\* Consumers on the first three tiles, a hydro plant or nothing on the fourth.
PowerCities ==
  { << NewBuilding(a), NewBuilding(b), NewBuilding(c) >> :
      a \in {"commercial", "textile-factory"},
      b \in {"commercial", "textile-factory", "recycling-center"},
      c \in {"textile-factory", "recycling-center"} }

NoPowerTrace == [op |-> "none", ticks |-> 0, before |-> 0, pools |-> <<>>, drew |-> <<>>]

InitPower ==
  /\ \E bs \in PowerCities, plant \in BOOLEAN :
       /\ buildings = IF plant THEN Append(bs, NewBuilding("hydro-plant")) ELSE bs
       /\ tiles = <<1, 2, 3, IF plant THEN 4 ELSE 0>>
  /\ citizens = <<>>
  /\ workforceDistribution = DefaultWorkforce
  /\ jTrace = NoPowerTrace
  /\ factory = NewFactory("textile")
  /\ energy \in {0, 5, 8, 12}
  /\ xp = 0 /\ money = 0 /\ productionMode = "balanced" /\ fTrace = NoTrace
  /\ LedgerIdle /\ GameIdle /\ WasteIdle /\ ScoreIdle
  /\ PollutionIdle /\ LoopIdle /\ SaveIdle

powerRest ==
  <<pollutionVars, loopVars, saveVars, ledgerVars, gameVars, wasteVars, scoreVars,
    tiles, buildings, citizens, workforceDistribution, factory, xp, money, productionMode, fTrace>>

\* One tick of City.simulate: every building in scan order.
PowerTick ==
  /\ jTrace.ticks < MaxPowerTicks
  /\ \E road \in BOOLEAN :
       LET out == cityPower(World, 1, road, [energy |-> energy, pools |-> <<>>, drew |-> <<>>])
       IN /\ out.energy <= MaxEnergy
          /\ energy' = out.energy
          /\ jTrace' = [op |-> "tick", ticks |-> jTrace.ticks + 1, before |-> energy,
                        pools |-> out.pools, drew |-> out.drew]
  /\ UNCHANGED powerRest

\* The player starts a manual recycling run at a recycling center:
\* startRecycling() consumes energyConsumption if the pool covers it.
PowerStartRecycling ==
  /\ \E t \in Tiles : tiles[t] # 0 /\ buildings[tiles[t]].kind = "recycling-center"
  /\ isFullyPowered(centerEnergyConsumption, energy)
  /\ energy' = consumeEnergy(energy, centerEnergyConsumption)
  /\ jTrace' = [jTrace EXCEPT !.op = "startRecycling", !.before = energy]
  /\ UNCHANGED powerRest

NextPower == PowerTick \/ PowerStartRecycling

SpecPower == InitPower /\ [][NextPower]_vars

\* power.required of the building on tile t.
RequiredOn(t) == IF tiles[t] = 0 THEN 0 ELSE powerRequiredOf(buildings[tiles[t]].kind)

\* In the last tick the buildings on tiles a and b each needed no more than
\* the pool held when the tick began, and together more than it held until
\* b's turn.
Contended(a, b) ==
  /\ a < b
  /\ RequiredOn(a) > 0 /\ RequiredOn(b) > 0
  /\ jTrace.pools[a] >= RequiredOn(a)
  /\ jTrace.before >= RequiredOn(b)
  /\ jTrace.pools[a] < RequiredOn(a) + RequiredOn(b)
  /\ \A t \in Tiles : a < t /\ t < b => ~ jTrace.drew[t]
  /\ \A t \in Tiles : a <= t /\ t < b => buildings[tiles[t]].kind # "hydro-plant"

\* C23 as stated: when two buildings both see enough energy for themselves in
\* a tick and the pool does not cover the two together, both consume and the
\* pool is overdrawn.
ContendedPoolOverdrawn ==
  jTrace.op = "tick"
    => \A a, b \in Tiles :
         Contended(a, b) => jTrace.drew[a] /\ jTrace.drew[b] /\ energy < 0

\* Each building consumed in the tick exactly when the pool covered its
\* requirement at its own turn.
DrewWhenCovered ==
  jTrace.op = "tick"
    => \A t \in Tiles :
         jTrace.drew[t] <=> (RequiredOn(t) > 0 /\ jTrace.pools[t] >= RequiredOn(t))

\* C23 amended: the pool is served first come, first served in scan order and
\* is never overdrawn: a building consumes only when the pool covers its
\* requirement at its own turn, and of two contending buildings the second
\* goes without.
PoolNeverOverdrawn ==
  /\ energy >= 0
  /\ DrewWhenCovered
  /\ jTrace.op = "tick"
       => /\ \A t \in Tiles : jTrace.pools[t] >= 0
          /\ \A a, b \in Tiles : Contended(a, b) => jTrace.drew[a] /\ ~ jTrace.drew[b]

\* A tick that began with 5 in the pool and two textile factories in a row:
\* the first consumed, the second found the pool empty and did not.
SecondGoesWithoutWitness ==
  /\ jTrace.op = "tick" /\ jTrace.before = 5
  /\ buildings[1].kind = "textile-factory" /\ buildings[2].kind = "textile-factory"
  /\ jTrace.drew[1] /\ ~ jTrace.drew[2]
  /\ jTrace.pools = <<5, 0, 0, 0>>
  /\ energy = 0


(***************************************************************************)
(* The automatic refill of the production queue                            *)
(***************************************************************************)

\* Stocks the refill finds: enough for more than five jobs with recycled
\* material for the level-2 and level-3 recipes, the stock of a new game, and
\* a stock that runs out after one or two jobs.
RefillStocks ==
  { [InitialResources EXCEPT !["raw-fabric"] = 14 * Scale, !["raw-plastic"] = Scale,
                             !["raw-metal"] = 20 * Scale,
                             !["recycled-metal"] = 4 * Scale,
                             !["recycled-plastic"] = Scale],
    InitialResources,
    [InitialResources EXCEPT !["raw-fabric"] = 4 * Scale, !["raw-plastic"] = 0,
                             !["raw-metal"] = 5 * Scale] }

\* A staffed factory of level 1, 2 or 3 with an empty queue and power for
\* some ticks; the player can pay for upgrades.
InitRefill ==
  /\ \E k \in FactoryKinds, l \in 1..3 :
       factory = [NewFactory(k) EXCEPT !.level = l,
                                       !.powerRequired = IF l = 1 THEN @ ELSE energyConsumption(k),
                                       !.workers = requiredWorkers(k)]
  /\ level = 1 /\ xp = 0 /\ currentTick = 0
  /\ waste = WasteOfKind["factory"]
  /\ resources \in RefillStocks
  /\ lastCall = NoCall
  /\ pollution = InitialPollution
  /\ wasteCall = [op |-> "none", clamped |-> FALSE]
  /\ energy = 40
  /\ money = 14000 * Cent
  /\ productionMode = "balanced"
  /\ fTrace = NoTrace
  /\ CityIdle /\ ScoreIdle /\ PollutionIdle /\ LoopIdle /\ SaveIdle

NextRefill == FactorySimulate \/ FactoryUpgrade

SpecRefill == InitRefill /\ [][NextRefill]_vars

\* The ledger covers every input of a recipe.
Affordable(res, inputs) ==
  \A i \in 1..Len(inputs) : res[inputs[i][1]] >= inputs[i][2]

\* The recipes of a factory kind that are open at level flevel and affordable.
OpenAffordable(kind, flevel, res) ==
  { i \in 1..Len(recipes(kind)) :
      recipes(kind)[i].requiredLevel <= flevel /\ Affordable(res, recipes(kind)[i].inputs) }

\* The ledger without the inputs of a recipe.
Paid(res, inputs) == [n \in DOMAIN res |-> res[n] - entryAmount(inputs, n, 1)]

\* The jobs enq[j], enq[j+1], ... are each of the recipe with the highest
\* requiredLevel among the open and affordable ones, given the ledger res and
\* a queue of qlen jobs, and after the last one the queue is full or nothing
\* is open and affordable.
RECURSIVE RefillFollows(_, _, _, _, _, _)
RefillFollows(kind, flevel, res, enq, j, qlen) ==
  IF j > Len(enq)
    THEN qlen = 5 \/ OpenAffordable(kind, flevel, res) = {}
    ELSE /\ qlen < 5
         /\ \E i \in OpenAffordable(kind, flevel, res) :
              /\ recipes(kind)[i].id = enq[j].recipe
              /\ \A k \in OpenAffordable(kind, flevel, res) :
                   recipes(kind)[k].requiredLevel <= recipes(kind)[i].requiredLevel
              /\ RefillFollows(kind, flevel, Paid(res, recipes(kind)[i].inputs), enq, j + 1,
                               qlen + 1)

\* The step is a tick of the factory in which the refill ran.
RefillTick ==
  /\ fTrace'.op = "simulate" /\ fTrace'.ticks = fTrace.ticks + 1
  /\ fTrace'.powered /\ fTrace'.adjusted > 0

MaxSeekers == 2

\* What stands on a tile next to the residence: nothing, a textile factory or
\* a developed commercial zone of level 2, with n workers already.
SeekerSites ==
  { [kind |-> "none", n |-> 0],
    [kind |-> "textile-factory", n |-> 0], [kind |-> "textile-factory", n |-> 4],
    [kind |-> "commercial", n |-> 0], [kind |-> "commercial", n |-> 3] }

\* The building of a site whose workers are the citizens first .. first + n - 1.
SiteBuilding(s, first) ==
  IF s.kind = "none" THEN NewBuilding("commercial")
  ELSE [NewBuilding(s.kind) EXCEPT
          !.devState = IF s.kind = "commercial" THEN "developed" ELSE @,
          !.devLevel = IF s.kind = "commercial" THEN 2 ELSE @,
          !.workers = [i \in 1..s.n |-> first + i - 1]]

\* The sliders of the policy panel tried here.
JobPolicies ==
  { DefaultWorkforce,
    [factories |-> 10, recycling |-> 20, commercial |-> 70],
    [factories |-> 47, recycling |-> 20, commercial |-> 33] }

NoJobTrace == [op |-> "none", citizen |-> 0, chosen |-> 0, before |-> <<>>]

\* A developed residence on tile home, a site on each other tile, the sites'
\* workers and MaxSeekers unemployed residents; the player at level 1 (no
\* policy panel) or 4 (policy panel unlocked).
InitJobs ==
  /\ \E home \in {1, 3}, s1 \in SeekerSites, s2 \in SeekerSites, s3 \in SeekerSites :
       LET others  == IF home = 1 THEN <<2, 3, 4>> ELSE <<1, 2, 4>>
           sites   == <<s1, s2, s3>>
           hired   == s1.n + s2.n + s3.n
           firstOf == <<1, s1.n + 1, s1.n + s2.n + 1>>
           siteAt(t) == CHOOSE i \in 1..3 : others[i] = t
       IN /\ tiles = [t \in Tiles |->
                        IF t = home THEN 1
                        ELSE IF sites[siteAt(t)].kind = "none" THEN 0
                        ELSE siteAt(t) + 1]
          /\ buildings =
               << [NewBuilding("residential") EXCEPT
                     !.devState = "developed",
                     !.residents = [i \in 1..(hired + MaxSeekers) |-> i]],
                  SiteBuilding(s1, firstOf[1]),
                  SiteBuilding(s2, firstOf[2]),
                  SiteBuilding(s3, firstOf[3]) >>
          /\ citizens =
               [c \in 1..(hired + MaxSeekers) |->
                  IF c > hired THEN NewCitizen(1, "unemployed")
                  ELSE [NewCitizen(1, "employed") EXCEPT
                          !.workplace = IF c < firstOf[2] THEN 2
                                        ELSE IF c < firstOf[3] THEN 3 ELSE 4]]
  /\ workforceDistribution \in JobPolicies
  /\ level \in {1, 4}
  /\ currentTick = 0 /\ pollution = InitialPollution
  /\ jTrace = NoJobTrace
  /\ LedgerIdle /\ WasteIdle /\ FactoryIdle /\ ScoreIdle
  /\ PollutionIdle /\ LoopIdle /\ SaveIdle

\* Citizen.simulate of one unemployed resident: #findJob, then the hiring.
SeekJob ==
  /\ \E c \in 1..Len(citizens) :
       /\ citizens[c].state = "unemployed"
       /\ LET w == citizenSimulate(World, c, level, workforceDistribution)
          IN /\ CityBecomes(w)
             /\ jTrace' = [op |-> "findJob", citizen |-> c,
                           chosen |-> w.citizens[c].workplace, before |-> World]
  /\ UNCHANGED <<workforceDistribution, ledgerVars, gameVars, wasteVars, factoryVars,
                 scoreVars, pollutionVars, loopVars, saveVars>>

NextJobs == SeekJob

SpecJobs == InitJobs /\ [][NextJobs]_vars

\* The search the last #findJob call made: the residence tile, the candidates,
\* the tile of the chosen building and each candidate's category and distance.
SeekerHome == tileOf(jTrace.before, jTrace.before.citizens[jTrace.citizen].residence)
Candidates == candidateTiles(jTrace.before, jTrace.citizen, SeekerHome)
ChosenTile == tileOf(jTrace.before, jTrace.chosen)
CategoryOf(t) == jobTypeOf(jTrace.before.buildings[jTrace.before.tiles[t]])
WorkingIn(type) == currentDistribution(jTrace.before, jTrace.citizen, type)
WorkingTotal == WorkingIn("factories") + WorkingIn("commercial")

\* desiredShare - currentShare of a candidate's category, times 100 and times
\* the number of workers (times 100 when nobody works yet).
Deficit(t) ==
  IF WorkingTotal > 0
    THEN workforceDistribution[CategoryOf(t)] * WorkingTotal - 100 * WorkingIn(CategoryOf(t))
    ELSE workforceDistribution[CategoryOf(t)]

\* 1000 * (desiredShare - currentShare) - distance, on the same scale.
WeightedScore(t) ==
  1000 * Deficit(t) - distance(SeekerHome, t) * 100 * (IF WorkingTotal > 0 THEN WorkingTotal ELSE 1)

\* Factories before recycling centers before commercial buildings.
CategoryRank(t) ==
  IF CategoryOf(t) = "factories" THEN 1 ELSE IF CategoryOf(t) = "recycling" THEN 2 ELSE 3

\* Without the policy: the first category that has a candidate, and in it a
\* nearest candidate.
ChoiceByCategory ==
  \A u \in Candidates :
    \/ CategoryRank(ChosenTile) < CategoryRank(u)
    \/ /\ CategoryRank(ChosenTile) = CategoryRank(u)
       /\ distance(SeekerHome, ChosenTile) <= distance(SeekerHome, u)

JobAssigned == jTrace.op = "findJob" /\ jTrace.chosen # 0

\* C28 as stated: without a policy the choice follows the category order and
\* then the distance; with the policy the choice has the largest deficit among
\* the candidates, and the smallest distance among those of that deficit.
ChoiceMaximisesDeficit ==
  JobAssigned =>
    /\ ChosenTile \in Candidates
    /\ IF policyActive(level)
         THEN \A u \in Candidates :
                \/ Deficit(ChosenTile) > Deficit(u)
                \/ /\ Deficit(ChosenTile) = Deficit(u)
                   /\ distance(SeekerHome, ChosenTile) <= distance(SeekerHome, u)
         ELSE ChoiceByCategory

\* C28 (amended): without a policy the choice follows the category order and
\* then the distance; with the policy the choice maximises
\* 1000 * (desiredShare - currentShare) - distance over the candidates.
ChoiceMaximisesWeightedScore ==
  JobAssigned =>
    /\ ChosenTile \in Candidates
    /\ IF policyActive(level)
         THEN \A u \in Candidates : WeightedScore(ChosenTile) >= WeightedScore(u)
         ELSE ChoiceByCategory

\* Under the policy a nearer factory was taken although the shop further away
\* has the larger deficit.
NearerBeatsNeedierWitness ==
  /\ JobAssigned
  /\ policyActive(level)
  /\ \E u \in Candidates :
       /\ Deficit(u) > Deficit(ChosenTile)
       /\ distance(SeekerHome, u) > distance(SeekerHome, ChosenTile)
       /\ CategoryOf(ChosenTile) = "factories"
       /\ CategoryOf(u) = "commercial"


(***************************************************************************)
(* The leak of local emissions into the pollution pool                     *)
(***************************************************************************)

\* Ticks the emitting building is followed for (a commercial zone emits every
\* 10 ticks).
MaxLeakTick == 12

\* The pool when the building is placed: empty, or 99.8% of every type.
LeakPools == { InitialPollution, [t \in PollutionTypes |-> 100 * Scale - Scale \div 5] }

\* A factory, a residential, a commercial or a farming building just placed,
\* the player one level below the global-pollution unlock or at it.
InitLeak ==
  /\ \E k \in {"factory", "residential", "commercial", "farming"} : waste = WasteOfKind[k]
  /\ wasteCall = [op |-> "none", clamped |-> FALSE]
  /\ level \in {5, 6}
  /\ currentTick = 0
  /\ pollution \in LeakPools
  /\ LedgerIdle /\ FactoryIdle /\ CityIdle /\ ScoreIdle /\ PollutionIdle /\ LoopIdle /\ SaveIdle

\* One tick passes and the building's simulate calls waste.simulate.
LeakSimulate ==
  /\ currentTick < MaxLeakTick
  /\ currentTick' = currentTick + 1
  /\ waste' = wasteSimulate(waste, level, currentTick')
  /\ pollution' = wasteSimulatePollution(waste, level, currentTick', pollution)
  /\ wasteCall' = [op |-> "simulate",
                   clamped |-> /\ wasteEmits(waste, level, currentTick')
                               /\ waste.amount + waste.productionRate > maxCapacity]
  /\ UNCHANGED <<wasteRest, level>>

NextLeak == LeakSimulate \/ WasteLevelUp

SpecLeak == InitLeak /\ [][NextLeak]_vars

\* A tick on which the module emits productionRate units of its waste type.
Emission ==
  /\ currentTick' = currentTick + 1
  /\ wasteCall'.op = "simulate"
  /\ wasteEmits(waste, level, currentTick')

\* C29, for a player who has global pollution unlocked: an emission of r units
\* of type t raises the pool's entry for t by r / 10, up to 100.
EmissionLeaksTenth ==
  [][Emission /\ isUnlocked("global-pollution", level) =>
       /\ waste.wasteType \in DOMAIN pollution'
       /\ waste.wasteType \in DOMAIN pollution
       /\ pollution'[waste.wasteType] =
            Min(100 * Scale, pollution[waste.wasteType] + waste.productionRate \div 10)]_vars


(***************************************************************************)
(* Recycling and the pollution pool (recyclingCenter.js)                   *)
(***************************************************************************)

\* The pool before the recycling: empty, 5% or 0.05% of every type.
RecyclePools ==
  { InitialPollution, [t \in PollutionTypes |-> 5 * Scale], [t \in PollutionTypes |-> Scale \div 20] }

\* The waste module of the one building with local waste: a factory's, empty
\* or with 30 units of textile waste, or a commercial zone's with 30 units of
\* plastic waste.
RecycleWastes ==
  { WasteOfKind["factory"],
    [WasteOfKind["factory"] EXCEPT !.amount = 30 * Scale],
    [WasteOfKind["commercial"] EXCEPT !.amount = 30 * Scale] }

\* A powered recycling center of level 1 or 3 on the grid, waste in the
\* ledger or in a building, and a pool that has taken up leaks before.
InitRecycle ==
  /\ resources \in { InitialResources,
                     [InitialResources EXCEPT !["e-waste"] = 10 * Scale],
                     withStock(InitialResources, WasteTypes \ {"organic-waste"}, 40 * Scale) }
  /\ lastCall = NoCall
  /\ \E s \in {[level |-> 3, xp |-> 250], [level |-> 6, xp |-> 2000]} :
       level = s.level /\ xp = s.xp
  /\ tiles = <<1, 2, 3, 4>>
  /\ buildings = ScoreBuildings
  /\ citizens = <<>>
  /\ workforceDistribution = DefaultWorkforce
  /\ jTrace = NoCityTrace
  /\ \E l \in {1, 3} : center = [NewCenter EXCEPT !.level = l]
  /\ waste \in RecycleWastes
  /\ wasteCall = [op |-> "none", clamped |-> FALSE]
  /\ pollution \in RecyclePools
  /\ currentTick = 0
  /\ factory = NewFactory("textile")
  /\ energy = MaxEnergy /\ money = 0
  /\ productionMode = "balanced"
  /\ fTrace = NoTrace
  /\ circularScore = 0
  /\ sTrace = NoScoreTrace
  /\ PollutionIdle /\ LoopIdle /\ SaveIdle

recycleRest ==
  <<pollutionVars, loopVars, saveVars, cityVars, lastCall, wasteCall, factory, money,
    productionMode, fTrace, center, currentTick>>

\* RecyclingCenter.simulate in a tick of the city: the power is drawn and the
\* automatic recycling runs.
AutoRecycle ==
  /\ sTrace.ticks < MaxScoreTicks
  /\ LET g == centerSimulate(Game, center)
     IN /\ GameBecomes(g)
        /\ sTrace' = [sTrace EXCEPT !.op = "auto", !.ticks = @ + 1, !.recycled = g.recycled]
  /\ UNCHANGED recycleRest

\* Game.processRecycling(x, y): the player clicks the recycling center's button.
ManualRecycle ==
  /\ sTrace.clicks < MaxClicks
  /\ LET g == startRecycling(Game, center)
     IN /\ GameBecomes(g)
        /\ sTrace' = [sTrace EXCEPT !.op = "manual", !.clicks = @ + 1, !.recycled = g.recycled]
  /\ UNCHANGED recycleRest

NextRecycle == AutoRecycle \/ ManualRecycle

SpecRecycle == InitRecycle /\ [][NextRecycle]_vars

\* The volume of waste type t a step recycles: what leaves the ledger plus
\* what leaves the building's waste module.
RecycledVolume(t) ==
  (resources[t] - resources'[t])
    + (IF waste.wasteType = t THEN waste.amount - waste'.amount ELSE 0)

\* C30, for the waste types the pool has an entry for: a recycling operation,
\* automatic or manual, lowers the pool's entry of each waste type it recycles
\* by a tenth of the recycled volume, down to 0, whether the waste came from
\* the ledger or from a building.
RecyclingLowersPool ==
  [][sTrace'.op \in {"auto", "manual"} /\ sTrace' # sTrace =>
       \A t \in DOMAIN pollution :
         RecycledVolume(t) > 0 =>
           pollution'[t] = Max(0, pollution[t] - RecycledVolume(t) \div 10)]_vars


(***************************************************************************)
(* The caps on recycled local waste (recyclingCenter.js)                   *)
(***************************************************************************)

\* maxLocalWastePerClick and the most one click takes from one building.
maxLocalWastePerClick == 50
maxPerBuildingPerClick == 20

\* Buildings with a waste module in the city.
MaxWasteBuildings == 3

\* The local-waste loop of processRecycling / processAutoRecycling over the
\* buildings from the i-th on, in traverse order: a building is looked at
\* while processedLocalWaste < maxLocal and gives up to perBuilding units.
\* st holds the game, the buildings, totalRecycled and processedLocalWaste.
RECURSIVE recycleLocalFrom(_, _, _, _, _)
recycleLocalFrom(st, i, maxLocal, perBuilding, eff) ==
  IF i > Len(st.bs) THEN st
  ELSE LET wm   == st.bs[i].waste
           take == IF st.processed < maxLocal THEN localToRecycle(wm, perBuilding) ELSE 0
       IN recycleLocalFrom(
            IF take > 0
              THEN [g |-> [st.g EXCEPT
                             !.resources = addResource(@, recycledTypeOf(wm.wasteType),
                                                       recycledAmount(take, eff)).res,
                             !.pollution = pollutionRemoveWaste(@, wm.wasteType, take \div 10)],
                    bs |-> [st.bs EXCEPT ![i].waste = wasteRemove(@, take)],
                    total |-> st.total + recycledAmount(take, eff),
                    processed |-> st.processed + take]
              ELSE st,
            i + 1, maxLocal, perBuilding, eff)

\* The ledger loop, the local loop over the buildings bs and the reward.
recycleCity(g, bs, out, maxLocal, perBuilding, eff, xpShare, scoreShare) ==
  LET st == recycleLocalFrom([g |-> [g EXCEPT !.resources = out.res], bs |-> bs,
                              total |-> out.total, processed |-> 0],
                             1, maxLocal, perBuilding, eff)
  IN [g |-> rewardRecycling(st.g, st.total, xpShare, scoreShare), bs |-> st.bs]

\* processRecycling() in a city with the buildings bs.
processRecyclingCity(g, bs, c) ==
  IF ~isFullyPowered(centerEnergyConsumption, g.energy) THEN [g |-> g, bs |-> bs]
  ELSE recycleCity(g, bs, recycleGlobal(g.resources, 20 * Scale, efficiencyByLevel(c.level), 1),
                   maxLocalWastePerClick * Scale, maxPerBuildingPerClick * Scale,
                   efficiencyByLevel(c.level), 100, 200)

\* startRecycling() in a city with the buildings bs.
startRecyclingCity(g, bs, c) ==
  IF ~isFullyPowered(centerEnergyConsumption, g.energy) THEN [g |-> g, bs |-> bs]
  ELSE processRecyclingCity([g EXCEPT !.energy = consumeEnergy(@, centerEnergyConsumption)], bs, c)

\* processAutoRecycling() in a city with the buildings bs.
processAutoRecyclingCity(g, bs, c) ==
  IF ~isFullyPowered(centerEnergyConsumption, g.energy) THEN [g |-> g, bs |-> bs]
  ELSE recycleCity(g, bs,
                   recycleGlobal(g.resources, autoRecyclingRateByLevel(c.level) * Scale,
                                 efficiencyByLevel(c.level), 1),
                   autoRecyclingRateByLevel(c.level) * Scale, Scale,
                   efficiencyByLevel(c.level), 50, 100)

\* RecyclingCenter.simulate in a city with the buildings bs.
centerSimulateCity(g, bs, c) ==
  processAutoRecyclingCity(
    [g EXCEPT !.energy = buildingDrawPower(centerEnergyConsumption, @)], bs, c)

\* A building with a waste module: a factory with 30 or no units of textile
\* waste, a commercial zone after its first emission (0.5 units of plastic
\* waste) or a residential zone with 30 units of organic waste.
WasteBuildings ==
  { [kind |-> "textile-factory", waste |-> [WasteOfKind["factory"] EXCEPT !.amount = 30 * Scale]],
    [kind |-> "textile-factory", waste |-> WasteOfKind["factory"]],
    [kind |-> "commercial", waste |-> [WasteOfKind["commercial"] EXCEPT !.amount = Scale \div 2]],
    [kind |-> "residential", waste |-> [WasteOfKind["residential"] EXCEPT !.amount = 30 * Scale]] }

\* A powered recycling center of level 1 or 3 and MaxWasteBuildings buildings
\* with waste modules; the ledger holds no waste.
InitCaps ==
  /\ buildings \in [1..MaxWasteBuildings -> WasteBuildings]
  /\ tiles = [t \in Tiles |-> 0]
  /\ citizens = <<>>
  /\ workforceDistribution = DefaultWorkforce
  /\ jTrace = NoCityTrace
  /\ \E l \in {1, 3} : center = [NewCenter EXCEPT !.level = l]
  /\ level = 6 /\ currentTick = 0 /\ pollution = InitialPollution
  /\ circularScore = 0
  /\ sTrace = NoScoreTrace
  /\ factory = NewFactory("textile")
  /\ energy = MaxEnergy /\ xp = 2000 /\ money = 0
  /\ productionMode = "balanced"
  /\ fTrace = NoTrace
  /\ LedgerIdle /\ WasteIdle /\ PollutionIdle /\ LoopIdle /\ SaveIdle

capsRest ==
  <<pollutionVars, loopVars, saveVars, tiles, citizens, workforceDistribution, jTrace,
    lastCall, wasteCall, factory, money, productionMode, fTrace, center, currentTick>>

\* RecyclingCenter.simulate in a tick of the city.
CapsAutoRecycle ==
  /\ sTrace.ticks < MaxScoreTicks
  /\ LET out == centerSimulateCity(Game, buildings, center)
     IN /\ GameBecomes(out.g)
        /\ buildings' = out.bs
        /\ sTrace' = [sTrace EXCEPT !.op = "auto", !.ticks = @ + 1, !.recycled = out.g.recycled]
  /\ UNCHANGED capsRest

\* Game.processRecycling(x, y): the player clicks the recycling center's button.
CapsManualRecycle ==
  /\ sTrace.clicks < MaxClicks
  /\ LET out == startRecyclingCity(Game, buildings, center)
     IN /\ GameBecomes(out.g)
        /\ buildings' = out.bs
        /\ sTrace' = [sTrace EXCEPT !.op = "manual", !.clicks = @ + 1, !.recycled = out.g.recycled]
  /\ UNCHANGED capsRest

NextCaps == CapsAutoRecycle \/ CapsManualRecycle

SpecCaps == InitCaps /\ [][NextCaps]_vars

\* What a step takes from the i-th building's local waste.
TakenFrom(i) == buildings[i].waste.amount - buildings'[i].waste.amount

RECURSIVE TakenUpTo(_)
TakenUpTo(n) == IF n = 0 THEN 0 ELSE TakenUpTo(n - 1) + TakenFrom(n)

\* C32: one manual click takes at most 50 units of local waste from all the
\* buildings together and at most 20 from any one; one automatic recycling
\* takes at most autoRecyclingRate units from all the buildings together.
LocalWasteWithinCaps ==
  [][/\ (sTrace'.op = "manual" /\ sTrace'.clicks = sTrace.clicks + 1) =>
          /\ TakenUpTo(Len(buildings)) <= maxLocalWastePerClick * Scale
          /\ \A i \in 1..Len(buildings) : TakenFrom(i) <= maxPerBuildingPerClick * Scale
     /\ (sTrace'.op = "auto" /\ sTrace'.ticks = sTrace.ticks + 1) =>
          TakenUpTo(Len(buildings)) <= autoRecyclingRateByLevel(center.level) * Scale]_vars


(***************************************************************************)
(* Income under the tax policies (gameState.js, cityPolicies.js)           *)
(***************************************************************************)

\* addMoney calls followed.
MaxIncomeCalls == 3

\* Amounts passed to addMoney, in coins.
Incomes == {1, 100, 8000}

NoIncomeTrace == [op |-> "none", ok |-> FALSE, calls |-> 0, amount |-> 0]

\* A new game or a later one: the tax policy is 'medium' until the player
\* changes it in the policy panel.
InitTax ==
  /\ level \in {1, 3, 4, 6} /\ currentTick = 0 /\ pollution = InitialPollution
  /\ money \in {0, 500000 * Cent}
  /\ factory = NewFactory("textile") /\ energy = 0 /\ xp = 0
  /\ productionMode = "balanced" /\ fTrace = NoTrace
  /\ market = NewMarket(1) /\ salesPolicy = "auto" /\ taxPolicy = "medium"
  /\ lTrace = NoLoopTrace
  /\ saveData = NoSave /\ uTrace = NoIncomeTrace
  /\ LedgerIdle /\ WasteIdle /\ CityIdle /\ ScoreIdle /\ PollutionIdle

\* updateTaxPolicy(value): the select of the policy panel, which is shown once
\* the panel is unlocked.
UpdateTaxPolicy ==
  /\ policyActive(level)
  /\ \E value \in {"low", "medium", "high"} : taxPolicy' = value
  /\ uTrace' = [uTrace EXCEPT !.op = "updateTaxPolicy"]
  /\ UNCHANGED <<pollutionVars, ledgerVars, gameVars, wasteVars, scoreVars, cityVars,
                 factoryVars, market, salesPolicy, lTrace, saveData>>

\* gameState.addMoney(amount) with a positive amount.
TaxIncome ==
  /\ uTrace.calls < MaxIncomeCalls
  /\ \E a \in Incomes :
       /\ money' = addMoney(money, a * Cent, level, taxPolicy)
       /\ uTrace' = [op |-> "addMoney", ok |-> TRUE, calls |-> uTrace.calls + 1,
                     amount |-> a * Cent]
  /\ UNCHANGED <<pollutionVars, loopVars, ledgerVars, gameVars, wasteVars, scoreVars, cityVars,
                 factory, energy, xp, productionMode, fTrace, saveData>>

NextTax == UpdateTaxPolicy \/ TaxIncome

SpecTax == InitTax /\ [][NextTax]_vars

\* C33: addMoney(a) raises the money by a under the tax policies 'low' and
\* 'medium' at every level, and by 1.25 * a under 'high' once the policy
\* panel is unlocked.
LowTaxIncomeIsNormal ==
  [][(uTrace'.op = "addMoney" /\ uTrace'.calls = uTrace.calls + 1) =>
       money' = money + (IF taxPolicy = "high" /\ policyActive(level)
                           THEN (uTrace'.amount * 125) \div 100
                           ELSE uTrace'.amount)]_vars


(***************************************************************************)
(* A factory that runs out of input stock (factory.js, market.js)          *)
(***************************************************************************)

\* Purchases of raw material followed.
MaxBuys == 2

\* Ledgers short of raw material: none at all, too little for any recipe, and
\* enough for one job.
ShortStocks ==
  { [InitialResources EXCEPT !["raw-fabric"] = 0, !["raw-plastic"] = 0, !["raw-metal"] = 0],
    [InitialResources EXCEPT !["raw-fabric"] = Scale, !["raw-plastic"] = 0,
                             !["raw-metal"] = 2 * Scale],
    [InitialResources EXCEPT !["raw-fabric"] = 3 * Scale, !["raw-plastic"] = 0,
                             !["raw-metal"] = 3 * Scale] }

NoBuy == [op |-> "none", name |-> "", amount |-> 0, req |-> <<>>, ok |-> TRUE,
          before |-> InitialResources, buys |-> 0, afterSkip |-> FALSE]

\* A staffed factory of level 1 or 2 with an empty queue, a ledger short of
\* raw material and money to buy some.
InitRetry ==
  /\ \E k \in FactoryKinds, l \in 1..2 :
       factory = [NewFactory(k) EXCEPT !.level = l,
                                       !.powerRequired = IF l = 1 THEN @ ELSE energyConsumption(k),
                                       !.workers = requiredWorkers(k)]
  /\ level = 1 /\ xp = 0 /\ currentTick = 0
  /\ waste = WasteOfKind["factory"]
  /\ resources \in ShortStocks
  /\ lastCall = NoBuy
  /\ pollution = InitialPollution
  /\ wasteCall = [op |-> "none", clamped |-> FALSE]
  /\ energy = 40
  /\ money = 150 * Cent
  /\ productionMode = "balanced"
  /\ fTrace = NoTrace
  /\ CityIdle /\ ScoreIdle /\ PollutionIdle /\ LoopIdle /\ SaveIdle

\* The factory can run (power, workers, waste factor), its queue has room and
\* the ledger res covers no recipe open at its level.
OutOfStock(f, tr, res) ==
  /\ tr.op = "simulate" /\ tr.powered /\ tr.adjusted > 0
  /\ Len(f.productionQueue) < maxQueueSize
  /\ \A i \in 1..Len(recipes(f.kind)) :
       recipes(f.kind)[i].requiredLevel <= f.level => ~hasResources(res, recipes(f.kind)[i].inputs)

\* Market.buyMaterial(material, amount, resourceManager, gameState): the
\* player buys 1 or 10 units in the market panel.
BuyMaterial ==
  /\ lastCall.buys < MaxBuys
  /\ \E material \in {"raw-fabric", "raw-plastic", "raw-metal"}, amount \in {1, 10} :
       LET cost == priced(amount * Scale, rawMaterialPrices[material], market.rawLevel)
           ok   == ~ (money < cost)
       IN /\ resources' = IF ok THEN addResource(resources, material, amount * Scale).res
                                ELSE resources
          /\ money' = IF ok THEN spendMoney(money, cost).money ELSE money
          /\ lastCall' = [op |-> "buyMaterial", name |-> material, amount |-> amount * Scale,
                          req |-> <<>>, ok |-> ok, before |-> resources,
                          buys |-> lastCall.buys + 1,
                          afterSkip |-> OutOfStock(factory, fTrace, resources)]
  /\ UNCHANGED <<factoryRest, gameVars, wasteVars, factory, energy, xp, productionMode, fTrace>>

NextRetry == FactorySimulate \/ StaffChange \/ BuyMaterial

SpecRetry == InitRetry /\ [][NextRetry]_vars

\* The names that occur as recipe inputs.
InputNames == RawTypes \cup RecycledTypes

\* What the jobs enq[j], enq[j+1], ... take of the input name n.
RECURSIVE InputsOf(_, _, _, _)
InputsOf(kind, enq, n, j) ==
  IF j > Len(enq) THEN 0
  ELSE entryAmount(recipeOf(kind, enq[j].recipe).inputs, n, 1) + InputsOf(kind, enq, n, j + 1)

\* The step is a tick of a powered, staffed factory whose waste factor is
\* not zero and whose queue holds fewer than 5 jobs.
ProductionAttempt ==
  /\ fTrace'.op = "simulate" /\ fTrace'.ticks = fTrace.ticks + 1
  /\ fTrace'.powered /\ factory.workers > 0 /\ fTrace'.penalty > 0
  /\ Len(factory.productionQueue) < 5

\* C34: a tick of such a factory in which no level-open recipe has its inputs
\* in the ledger leaves the inputs in the ledger and enqueues nothing; a tick
\* in which some level-open recipe has them enqueues a job for such a recipe
\* and deducts the inputs of the jobs it enqueues.
StockoutSkippedThenRetried ==
  [][ProductionAttempt =>
       IF OpenAffordable(factory.kind, factory.level, resources) = {}
         THEN /\ fTrace'.enqueued = <<>>
              /\ factory'.productionQueue = fTrace'.afterProgress
              /\ \A n \in InputNames : resources'[n] = resources[n]
         ELSE /\ Len(fTrace'.enqueued) >= 1
              /\ \E i \in OpenAffordable(factory.kind, factory.level, resources) :
                   recipes(factory.kind)[i].id = fTrace'.enqueued[1].recipe
              /\ factory'.productionQueue = fTrace'.afterProgress \o fTrace'.enqueued
              /\ \A n \in InputNames :
                   resources'[n] = resources[n] - InputsOf(factory.kind, fTrace'.enqueued, n, 1)]_vars

\* A tick found nothing to produce for lack of stock, the player bought raw
\* material, and the tick after the purchase enqueued a job.
RetriedAfterPurchaseWitness ==
  /\ lastCall.op = "buyMaterial" /\ lastCall.ok /\ lastCall.afterSkip
  /\ fTrace.op = "simulate" /\ fTrace.powered
  /\ Len(fTrace.enqueued) >= 1
  /\ Len(fTrace.queueBefore) = 0


\* The step is a startRecycling() call that returned true: the center was
\* powered and the energy of one manual recycling was deducted.
StartedRecycling ==
  /\ sTrace'.op = "manual" /\ sTrace'.clicks = sTrace.clicks + 1
  /\ energy >= centerEnergyConsumption
  /\ energy' = energy - centerEnergyConsumption

\* Recyclable waste exists in the ledger or in the building.
RecyclableWasteExists ==
  \/ \E i \in 1..Len(wasteRecipes) : resources[wasteRecipes[i][1]] > 0
  \/ waste.amount > 0 /\ recycledTypeOf(waste.wasteType) # "none"

\* C36: a startRecycling() call that returns true while recyclable waste
\* exists recycles: some waste is removed, and of each recycled material the
\* removed amount times the efficiency is added.
StartedRecyclingRecycles ==
  [][StartedRecycling /\ RecyclableWasteExists =>
       /\ \E i \in 1..Len(wasteRecipes) : RecycledVolume(wasteRecipes[i][1]) > 0
       /\ \A i \in 1..Len(wasteRecipes) :
            resources'[wasteRecipes[i][2]] - resources[wasteRecipes[i][2]] =
              recycledAmount(RecycledVolume(wasteRecipes[i][1]), efficiencyByLevel(center.level))]_vars


(***************************************************************************)
(* The multipliers after a penalty evaluation                              *)
(***************************************************************************)

\* The step is an applyPenalties(currentTick) call that got past the interval
\* guard: a penalty evaluation.
PenaltyEvaluation ==
  /\ pTrace'.op = "applyPenalties"
  /\ penaltiesDue(penalties, currentTick)
  /\ penalties'.lastPenaltyTick = currentTick

\* A multiplier of gameState as its readers see it: a field never assigned
\* counts as no penalty (1).
MultiplierRead(m) == IF m = 0 THEN 100 ELSE m

\* C37: after every penalty evaluation the multipliers match the pollution
\* band of that evaluation: circularScoreMultiplier is below 1 exactly when
\* totalPollution >= 50, and xpMultiplier is 0.75 only when totalPollution >= 75.
MultipliersMatchBand ==
  [][PenaltyEvaluation =>
       /\ MultiplierRead(penalties'.circularScoreMultiplier) < 100
            => totalPollution(pollution) >= 50 * Scale
       /\ totalPollution(pollution) < 50 * Scale
            => MultiplierRead(penalties'.circularScoreMultiplier) = 100
       /\ MultiplierRead(penalties'.xpMultiplier) = 75
            => totalPollution(pollution) >= 75 * Scale]_vars


(***************************************************************************)
(* The crisis branch under Game.simulate                                   *)
(***************************************************************************)

\* C38: in the tick loop decay() runs right before applyPenalties(), so
\* totalPollution is below 100 at every applyPenalties call of Game.simulate
\* and no evaluation of the loop takes the >= 100 branch.
NoCrisisInTickLoop ==
  /\ lTrace.pc = "penalties" =>
       /\ totalPollution(pollution) < 100 * Scale
       /\ ~ triggersPollutionEvent(penalties, pollution, currentTick)
  /\ ~ penalties.eventTriggered

\* Ticks that started with every pool entry at 100 have decayed the pool and
\* evaluated the penalties: the mean is between 99 and 100, the market-price
\* penalty is set, the event is not.
EvaluatedJustBelowCrisisWitness ==
  /\ lTrace.pc = "city"
  /\ penalties.lastPenaltyTick = currentTick
  /\ penalties.marketPrices /\ ~ penalties.eventTriggered
  /\ \A t \in PollutionTypes : pollution[t] >= 99 * Scale /\ pollution[t] < 100 * Scale
====
